---- MODULE Spec2Model ----
(***************************************************************************)
(* Streaming response pipeline of the documentation chat widget:           *)
(*   bytes -> DelimitedJSONDecoderStream -> EventDecoderStream             *)
(*         -> AssistantComponent (pipeStream / consumeStream / sendRequest)*)
(*         -> StorageService.                                              *)
(*                                                                         *)
(* Three specifications share this module:                                 *)
(*   SpecDecoder   the byte-to-value decoder fed chunk by chunk            *)
(*   SpecValidator the event validator fed decoded objects                 *)
(*   Spec          the consumer: onSend, sendRequest, consumeStream        *)
(***************************************************************************)
EXTENDS Integers, Sequences, FiniteSets, TLC

VARIABLES
    \* ---- decoder (DelimitedJSONDecoderStream) ----
    lines,        \* the JSON values the server wrote, one per line
    trailing,     \* whether the last line is followed by the separator
    doc,          \* the bytes of the response body
    pos,          \* how many bytes of doc were written into the decoder
    parser,       \* state of the JSONParser (tokenizer and token parser)
    parserOut,    \* parser.readable: ParsedElementInfo not yet filtered
    decoded,      \* readable of the decoder: the root objects enqueued
    filterLog,    \* every element the filter has seen, with its verdict
    decState,     \* "open" | "closed" | "errored"
    midSplit,     \* some chunk ended inside a JSON value
    multiChunk,   \* some chunk completed more than one root value
    \* ---- validator (EventDecoderStream) ----
    valIn,        \* decoded objects not yet transformed
    valSeen,      \* objects already transformed, each with what toStreamEvent returned
    valOut,       \* events enqueued on the readable side
    \* ---- consumer (AssistantComponent) and store (StorageService) ----
    loaded,         \* ngOnInit has loaded the chat
    messages,       \* the live message list
    history,        \* the persisted message log (object store chat_history)
    sessionStore,   \* the persisted session id, "" when none
    sessionTx,      \* the ids of the saveChatId transactions in flight, oldest first
    isAwaiting,     \* signal: input locked
    streamProgress, \* signal: rendered progress label
    output,         \* the output signal of the current request's resource stream
    userRequest,    \* signal: the query that drives the resource
    sends,          \* number of non-blank submissions so far
    events,         \* number of stream events delivered so far
    onSend,         \* the running onSend call
    req,            \* the running sendRequest call
    cons,           \* the running consumeStream call
    \* ---- transport (ResponseService.generateResponse) ----
    gen,            \* the running generateResponse call
    net,            \* the fetch it issued and the clock of its timer
    clr,            \* the running clearHistory call, with its fetch and timer
    clear,          \* the running clearChat call of the AssistantComponent
    \* ---- store (StorageService over IndexedDB) ----
    database,       \* StorageService.database: the cached promise of the connection
    idb,            \* the IndexedDB database: schema, object stores, transactions
    ops             \* the calls of store operations so far, in call order

decVars == <<lines, trailing, doc, pos, parser, parserOut, decoded, filterLog, decState,
            midSplit, multiChunk>>
valVars == <<valIn, valSeen, valOut>>
appVars == <<loaded, messages, history, sessionStore, sessionTx, isAwaiting, streamProgress, output,
            userRequest, sends, events, onSend, req, cons>>
netVars == <<gen, net, clr, clear>>
storeVars == <<database, idb, ops>>
vars == <<decVars, valVars, appVars, netVars, storeVars>>

(***************************************************************************)
(* JSON values.  A value is a record [t, s, kv]: t the JavaScript kind,    *)
(* s the text of a string, number or literal, kv the members of an object  *)
(* (k the key) or the elements of an array (k empty).                      *)
(***************************************************************************)
Undefined == [t |-> "undefined", s |-> "", kv |-> <<>>]
JNull == [t |-> "null", s |-> "null", kv |-> <<>>]
JTrue == [t |-> "boolean", s |-> "true", kv |-> <<>>]
JFalse == [t |-> "boolean", s |-> "false", kv |-> <<>>]
JStr(s) == [t |-> "string", s |-> s, kv |-> <<>>]
JNum(s) == [t |-> "number", s |-> s, kv |-> <<>>]
JObj(kv) == [t |-> "object", s |-> "", kv |-> kv]
JArr(kv) == [t |-> "array", s |-> "", kv |-> kv]
KV(k, v) == [k |-> k, v |-> v]

\* value[key]: the member of an object, undefined when absent or not an object
Get(value, key) ==
    IF value.t = "object" /\ \E i \in 1..Len(value.kv) : value.kv[i].k = key
    THEN value.kv[CHOOSE i \in 1..Len(value.kv) : value.kv[i].k = key].v
    ELSE Undefined

\* value[key] = v on an object (a repeated key overwrites in place),
\* value.push(v) on an array
SetMember(value, key, v) ==
    IF value.t = "object" /\ \E i \in 1..Len(value.kv) : value.kv[i].k = key
    THEN [value EXCEPT !.kv[CHOOSE i \in 1..Len(value.kv) : value.kv[i].k = key].v = v]
    ELSE [value EXCEPT !.kv = Append(@, KV(IF value.t = "object" THEN key ELSE "", v))]

(***************************************************************************)
(* JSONParser of @streamparser/json-whatwg, as DelimitedJSONDecoderStream  *)
(* constructs it: { separator, keepStack: false }, no path filter, so      *)
(* every value of the parse tree is reported as a ParsedElementInfo        *)
(* {value, parent}.  The grammar is JSON without escapes, signs, fractions *)
(* and exponents.                                                          *)
(*   tstate, buf, lit   the tokenizer: its state, the text of the token    *)
(*                      being read, the rest of a literal being matched    *)
(*   state, mode, key, value, stack   the token parser                     *)
(*   out                elements reported by the current write             *)
(*   err                the parser has thrown                              *)
(***************************************************************************)
Digits == {"0", "1", "2", "3", "4", "5", "6", "7", "8", "9"}
Whitespace == {" ", "\n", "\r", "\t"}
Punctuation == {"{", "}", "[", "]", ":", ","}
PrimitiveTokens == {"STRING", "NUMBER", "TRUE", "FALSE", "NULL"}

NewJSONParserNoSeparator(separator) ==
    [sep |-> "", tstate |-> "START", buf |-> "", lit |-> <<>>,
     state |-> "VALUE", mode |-> "NONE", key |-> "", value |-> Undefined,
     stack |-> <<>>, out |-> <<>>, err |-> FALSE]

NewJSONParser(separator) ==
    [sep |-> separator, tstate |-> "START", buf |-> "", lit |-> <<>>,
     state |-> "VALUE", mode |-> "NONE", key |-> "", value |-> Undefined,
     stack |-> <<>>, out |-> <<>>, err |-> FALSE]

ParserError(p) == [p EXCEPT !.err = TRUE]

\* TokenParser.emit: report the value with the container it sits in; a
\* completed root makes the parser expect the separator (or end without one)
ParserEmit(p, v) ==
    LET q == [p EXCEPT !.out = Append(@, [value |-> v, parent |-> p.value])]
    IN  IF Len(q.stack) = 0
        THEN [q EXCEPT !.state = IF q.sep # "" THEN "SEPARATOR" ELSE "ENDED"]
        ELSE q

\* TokenParser.push on "{" or "["
ParserPush(p, mode, state) ==
    [p EXCEPT !.stack = Append(@, [key |-> p.key, value |-> p.value, mode |-> p.mode]),
              !.state = state, !.mode = mode, !.key = "",
              !.value = IF mode = "OBJECT" THEN JObj(<<>>) ELSE JArr(<<>>)]

\* TokenParser.pop on "}" or "]": the finished container becomes a member of
\* the container below it, which is current again, and is reported
ParserPop(p) ==
    LET top == p.stack[Len(p.stack)]
        below == IF top.mode = "NONE" THEN top.value
                 ELSE SetMember(top.value, top.key, p.value)
    IN  ParserEmit([p EXCEPT !.stack = SubSeq(@, 1, Len(@) - 1),
                             !.key = top.key, !.value = below, !.mode = top.mode,
                             !.state = IF top.mode # "NONE" THEN "COMMA" ELSE "VALUE"],
                   p.value)

TokenValue(tk) ==
    CASE tk.type = "STRING" -> JStr(tk.value)
      [] tk.type = "NUMBER" -> JNum(tk.value)
      [] tk.type = "TRUE" -> JTrue
      [] tk.type = "FALSE" -> JFalse
      [] OTHER -> JNull

\* TokenParser.write: one token
TokenParserWrite(p, tk) ==
    IF p.err \/ p.state = "ENDED" THEN ParserError(p)
    ELSE IF p.state = "VALUE" /\ tk.type \in PrimitiveTokens THEN
        IF p.mode = "NONE" THEN ParserEmit(p, TokenValue(tk))
        ELSE ParserEmit([p EXCEPT !.value = SetMember(@, p.key, TokenValue(tk)),
                                  !.state = "COMMA"], TokenValue(tk))
    ELSE IF p.state = "VALUE" /\ tk.type = "LEFT_BRACE" THEN ParserPush(p, "OBJECT", "KEY")
    ELSE IF p.state = "VALUE" /\ tk.type = "LEFT_BRACKET" THEN ParserPush(p, "ARRAY", "VALUE")
    ELSE IF p.state = "VALUE" /\ tk.type = "RIGHT_BRACKET"
            /\ p.mode = "ARRAY" /\ p.value.kv = <<>> THEN ParserPop(p)
    ELSE IF p.state = "KEY" /\ tk.type = "STRING" THEN [p EXCEPT !.key = tk.value, !.state = "COLON"]
    ELSE IF p.state = "KEY" /\ tk.type = "RIGHT_BRACE" /\ p.value.kv = <<>> THEN ParserPop(p)
    ELSE IF p.state = "COLON" /\ tk.type = "COLON" THEN [p EXCEPT !.state = "VALUE"]
    ELSE IF p.state = "COMMA" /\ tk.type = "COMMA" THEN
        [p EXCEPT !.state = IF p.mode = "ARRAY" THEN "VALUE" ELSE "KEY"]
    ELSE IF p.state = "COMMA" /\ ((tk.type = "RIGHT_BRACE" /\ p.mode = "OBJECT")
                                  \/ (tk.type = "RIGHT_BRACKET" /\ p.mode = "ARRAY")) THEN ParserPop(p)
    ELSE IF p.state = "SEPARATOR" /\ tk.type = "SEPARATOR" THEN [p EXCEPT !.state = "VALUE"]
    \* a separator that is only whitespace, met inside a value, is whitespace
    ELSE IF tk.type = "SEPARATOR" /\ p.sep \in Whitespace THEN p
    ELSE ParserError(p)

PunctuationToken(c) ==
    CASE c = "{" -> "LEFT_BRACE" [] c = "}" -> "RIGHT_BRACE"
      [] c = "[" -> "LEFT_BRACKET" [] c = "]" -> "RIGHT_BRACKET"
      [] c = ":" -> "COLON" [] OTHER -> "COMMA"

Token(type, value) == [type |-> type, value |-> value]

\* Tokenizer.write: one character; a character that ends a number is read
\* again in the START state
RECURSIVE TokenizerWrite(_, _)
TokenizerWrite(p, c) ==
    IF p.err \/ p.state = "ENDED" THEN ParserError(p)
    ELSE CASE p.tstate = "START" ->
            IF p.sep # "" /\ c = p.sep THEN TokenParserWrite(p, Token("SEPARATOR", c))
            ELSE IF c \in Whitespace THEN p
            ELSE IF c \in Punctuation THEN TokenParserWrite(p, Token(PunctuationToken(c), c))
            ELSE IF c = "\"" THEN [p EXCEPT !.tstate = "STRING", !.buf = ""]
            ELSE IF c \in Digits THEN [p EXCEPT !.tstate = "NUMBER", !.buf = c]
            ELSE IF c = "n" THEN [p EXCEPT !.tstate = "LITERAL", !.buf = "NULL", !.lit = <<"u", "l", "l">>]
            ELSE IF c = "t" THEN [p EXCEPT !.tstate = "LITERAL", !.buf = "TRUE", !.lit = <<"r", "u", "e">>]
            ELSE IF c = "f" THEN [p EXCEPT !.tstate = "LITERAL", !.buf = "FALSE", !.lit = <<"a", "l", "s", "e">>]
            ELSE ParserError(p)
         [] p.tstate = "STRING" ->
            IF c = "\"" THEN TokenParserWrite([p EXCEPT !.tstate = "START", !.buf = ""],
                                              Token("STRING", p.buf))
            ELSE [p EXCEPT !.buf = @ \o c]
         [] p.tstate = "NUMBER" ->
            IF c \in Digits THEN [p EXCEPT !.buf = @ \o c]
            ELSE TokenizerWrite(TokenParserWrite([p EXCEPT !.tstate = "START", !.buf = ""],
                                                 Token("NUMBER", p.buf)), c)
         [] OTHER ->
            IF c # Head(p.lit) THEN ParserError(p)
            ELSE IF Len(p.lit) = 1
                 THEN TokenParserWrite([p EXCEPT !.tstate = "START", !.buf = "", !.lit = <<>>],
                                       Token(p.buf, ""))
                 ELSE [p EXCEPT !.lit = Tail(@)]

\* JSONParser.write(chunk): every character of the chunk in turn, from the
\* state the previous chunk left
RECURSIVE ParserWrite(_, _)
ParserWrite(p, chunk) ==
    IF chunk = <<>> THEN p
    ELSE IF Len(chunk) = 1 THEN TokenizerWrite(p, chunk[1])
    ELSE LET half == Len(chunk) \div 2
             q == ParserWrite(p, SubSeq(chunk, 1, half))
         IN  IF q.err THEN q   \* the write has thrown
             ELSE ParserWrite(q, SubSeq(chunk, half + 1, Len(chunk)))

\* JSONParser.end, called when the writable side closes: a number being read
\* is complete; any other unfinished token or value is an error
ParserEnd(p) ==
    LET q == IF p.tstate = "NUMBER" /\ ~p.err
             THEN TokenParserWrite([p EXCEPT !.tstate = "START", !.buf = ""], Token("NUMBER", p.buf))
             ELSE p
    IN  IF q.err \/ q.tstate # "START" \/ Len(q.stack) > 0
           \/ q.state \notin {"VALUE", "SEPARATOR", "ENDED"}
        THEN ParserError(q)
        ELSE [q EXCEPT !.state = "ENDED"]

(***************************************************************************)
(* DelimitedJSONDecoderStream: the filter behind the parser.               *)
(***************************************************************************)
\* completedJSONFilter.transform: TRUE when the element is enqueued
completedJSONFilterNoParentTest(info) ==
    ~(info.value.t \in {"null", "undefined"}
      \/ (info.value.t = "number" /\ info.value.s = "0")
      \/ (info.value.t = "string" /\ info.value.s = "")
      \/ info.value = JFalse
      \/ info.value.t \notin {"object", "array", "null"}
      \/ info.value.t = "array")

completedJSONFilterNoArrayTest(info) ==
    info.parent = Undefined /\ info.value.t \in {"object", "array"}

completedJSONFilter(info) ==
    IF info.parent # Undefined THEN FALSE
    ELSE IF \/ info.value.t \in {"null", "undefined"}          \* !value
            \/ (info.value.t = "number" /\ info.value.s = "0")
            \/ (info.value.t = "string" /\ info.value.s = "")
            \/ info.value = JFalse
            \/ info.value.t \notin {"object", "array", "null"}  \* typeof value !== 'object'
            \/ info.value.t = "array"                           \* Array.isArray(value)
         THEN FALSE
         ELSE TRUE

(***************************************************************************)
(* AssistantComponent and StorageService right after construction.         *)
(***************************************************************************)
NoCall == [pc |-> "idle"]

AppIdle ==
    /\ loaded = FALSE
    /\ messages = <<>>
    /\ history = <<>>
    /\ sessionStore = ""
    /\ sessionTx = <<>>
    /\ isAwaiting = FALSE
    /\ streamProgress = <<>>
    /\ output = <<>>
    /\ userRequest = ""
    /\ sends = 0
    /\ events = 0
    /\ onSend = NoCall
    /\ req = NoCall
    /\ cons = NoCall

(***************************************************************************)
(* ResponseService before any generateResponse call: no call, no fetch.    *)
(***************************************************************************)
NoFetch == [state |-> "idle"]

NetIdle == gen = NoCall /\ net = NoFetch /\ clr = NoCall /\ clear = NoCall

(***************************************************************************)
(* StorageService before its first operation, over a database that does    *)
(* not exist yet: no connection promise, no object store, no transaction.  *)
(***************************************************************************)
NoDatabase ==
    [opens |-> 0, version |-> 0, schema |-> {}, created |-> <<>>,
     log |-> <<>>, keygen |-> 0, session |-> <<>>, txs |-> <<>>, clock |-> 0]

StoreIdle == database = "unset" /\ idb = NoDatabase /\ ops = <<>>

(***************************************************************************)
(* The response bodies the decoder is run on: up to MaxLines JSON values,  *)
(* one per line, written out as characters.                                *)
(***************************************************************************)
MaxLines == 2

SampleValues ==
    { JObj(<<KV("a", JStr("x"))>>),                                      \* {"a":"x"}
      JObj(<<KV("a", JObj(<<KV("b", JNum("12"))>>)), KV("c", JNull)>>),  \* {"a":{"b":12},"c":null}
      JArr(<<KV("", JObj(<<KV("a", JNum("1"))>>))>>),                    \* [{"a":1}]
      JNum("12"), JNull }

Chars(s) ==
    CASE s = "" -> <<>>
      [] s = "12" -> <<"1", "2">>
      [] s = "null" -> <<"n", "u", "l", "l">>
      [] s = "true" -> <<"t", "r", "u", "e">>
      [] s = "false" -> <<"f", "a", "l", "s", "e">>
      [] OTHER -> <<s>>

Quoted(s) == <<"\"">> \o Chars(s) \o <<"\"">>

RECURSIVE Serialize(_), SerializeMembers(_, _)
Serialize(v) ==
    CASE v.t = "string" -> Quoted(v.s)
      [] v.t = "object" -> <<"{">> \o SerializeMembers(v.kv, TRUE) \o <<"}">>
      [] v.t = "array" -> <<"[">> \o SerializeMembers(v.kv, FALSE) \o <<"]">>
      [] OTHER -> Chars(v.s)
SerializeMembers(kv, keyed) ==
    IF kv = <<>> THEN <<>>
    ELSE (IF keyed THEN Quoted(kv[1].k) \o <<":">> ELSE <<>>)
         \o Serialize(kv[1].v)
         \o (IF Len(kv) > 1 THEN <<",">> ELSE <<>>)
         \o SerializeMembers(Tail(kv), keyed)

\* the values joined by the separator, with or without one after the last
RECURSIVE Body(_, _, _)
Body(values, separator, last) ==
    IF values = <<>> THEN <<>>
    ELSE Serialize(Head(values))
         \o (IF Len(values) > 1 \/ last THEN <<separator>> ELSE <<>>)
         \o Body(Tail(values), separator, last)

LineSeqs == UNION {[1..n -> SampleValues] : n \in 1..MaxLines}

(***************************************************************************)
(* SpecDecoder: a body written into DelimitedJSONDecoderStream('\n') in    *)
(* chunks of any length.                                                   *)
(***************************************************************************)
ValIdle == valIn = <<>> /\ valSeen = <<>> /\ valOut = <<>>

DecInit ==
    /\ lines \in LineSeqs
    /\ trailing \in BOOLEAN
    /\ doc = Body(lines, "\n", trailing)
    /\ pos = 0
    /\ parser = NewJSONParser("\n")
    /\ parserOut = <<>>
    /\ decoded = <<>>
    /\ filterLog = <<>>
    /\ decState = "open"
    /\ midSplit = FALSE
    /\ multiChunk = FALSE
    /\ ValIdle
    /\ AppIdle
    /\ NetIdle
    /\ StoreIdle

\* bookkeeping on a chunk boundary
InsideValue(p) == p.tstate # "START" \/ Len(p.stack) > 0
Roots(infos) == Len(SelectSeq(infos, LAMBDA i : i.parent = Undefined))

\* parser.readable after a write: the parser enqueues each element as it
\* completes it; the first goes to the read that is pending when a transform
\* runs, the others are queued.  A throw of the parser errors the readable,
\* which resets its queue.
Readable(p) ==
    IF ~p.err THEN p.out
    ELSE SubSeq(p.out, 1, IF p.out = <<>> THEN 0 ELSE 1)

\* parser.writable receives the next n bytes (the transform runs once the
\* elements of the previous chunk have been pulled).
WriteChunkRestartingParser(n) ==
    /\ decState = "open" /\ parserOut = <<>>
    /\ pos + n <= Len(doc)
    /\ LET p == ParserWrite(NewJSONParser("\n"), SubSeq(doc, pos + 1, pos + n))
       IN  /\ parser' = [p EXCEPT !.out = <<>>]
           /\ parserOut' = Readable(p)
           /\ decState' = IF p.err THEN "errored" ELSE decState
    /\ pos' = pos + n
    /\ midSplit' = (midSplit \/ InsideValue(parser'))
    /\ multiChunk' = (multiChunk \/ Roots(parserOut') > 1)
    /\ UNCHANGED <<lines, trailing, doc, decoded, filterLog, valVars, appVars, netVars, storeVars>>

WriteChunk(n) ==
    /\ decState = "open" /\ parserOut = <<>>
    /\ pos + n <= Len(doc)
    /\ LET p == ParserWrite(parser, SubSeq(doc, pos + 1, pos + n))
       IN  /\ parser' = [p EXCEPT !.out = <<>>]
           /\ parserOut' = Readable(p)
           /\ decState' = IF p.err THEN "errored" ELSE decState
    /\ pos' = pos + n
    /\ midSplit' = (midSplit \/ InsideValue(parser'))
    /\ multiChunk' = (multiChunk \/ Roots(parserOut') > 1)
    /\ UNCHANGED <<lines, trailing, doc, decoded, filterLog, valVars, appVars, netVars, storeVars>>

\* completedJSONFilter takes the next element of parser.readable
FilterStep ==
    /\ parserOut # <<>>
    /\ LET info == Head(parserOut)
           pass == completedJSONFilter(info)
       IN  /\ decoded' = IF pass THEN Append(decoded, info.value) ELSE decoded
           /\ filterLog' = Append(filterLog, [info |-> info, enqueued |-> pass])
    /\ parserOut' = Tail(parserOut)
    /\ UNCHANGED <<lines, trailing, doc, pos, parser, decState, midSplit, multiChunk, valVars, appVars, netVars, storeVars>>

\* the body ends: the writable side closes and the parser is flushed.  The
\* flush does not wait for the readable to be pulled; a throw resets the
\* queue with whatever the last chunk left in it.
CloseStream ==
    /\ decState = "open"
    /\ pos = Len(doc)
    /\ LET p == ParserEnd(parser)
       IN  /\ parser' = [p EXCEPT !.out = <<>>]
           /\ parserOut' = IF p.err THEN <<>> ELSE parserOut \o p.out
           /\ decState' = IF p.err THEN "errored" ELSE "closed"
    /\ UNCHANGED <<lines, trailing, doc, pos, decoded, filterLog, midSplit, multiChunk, valVars, appVars, netVars, storeVars>>

DecNext ==
    \/ \E n \in 1..Len(doc) : WriteChunk(n)
    \/ FilterStep
    \/ CloseStream

SpecDecoder == DecInit /\ [][DecNext]_vars

\* the decoder run on the whole body as a single chunk
RECURSIVE FilterAll(_)
FilterAll(infos) ==
    IF infos = <<>> THEN <<>>
    ELSE (IF completedJSONFilter(Head(infos)) THEN <<Head(infos).value>> ELSE <<>>)
         \o FilterAll(Tail(infos))

DecodeSingleChunk(body) ==
    LET p == ParserWrite(NewJSONParser("\n"), body)
        q == ParserEnd([p EXCEPT !.out = <<>>])
    IN  [values |-> FilterAll(IF p.err THEN Readable(p) ELSE p.out \o (IF q.err THEN <<>> ELSE q.out)),
         errored |-> p.err \/ q.err]

DecoderDone == decState # "open" /\ parserOut = <<>>

IsRootObject(v) == v.t = "object"

\* C1: for a valid NDJSON body, the decoder fed in chunks cut at arbitrary
\* positions ends with the same ordered values, and the same outcome, as
\* the decoder fed the whole body as one chunk.
C1_ChunkingInvariant ==
    DecoderDone =>
        LET whole == DecodeSingleChunk(doc)
        IN  /\ decoded = whole.values
            /\ (decState = "errored") = whole.errored

C1_Witness ==
    DecoderDone /\ midSplit /\ Len(decoded) >= 2

\* C2: the decoder emits exactly one value per root object of the body, in
\* arrival order, also when several values arrive in one chunk.
C2_OneValuePerRootObject ==
    DecoderDone =>
        /\ decState = "closed"
        /\ decoded = SelectSeq(lines, IsRootObject)

C2_Witness ==
    DecoderDone /\ multiChunk /\ Len(decoded) >= 2 /\ decoded[1] # decoded[2]

\* C3: the filter forwards an element exactly when it has no parent and its
\* value is a non-null, non-array object; everything else is dropped
\* without an error.
C3_OnlyRootObjects ==
    /\ \A i \in 1..Len(filterLog) :
          filterLog[i].enqueued <=>
             (filterLog[i].info.parent = Undefined /\ filterLog[i].info.value.t = "object")
    /\ decoded = [i \in 1..Len(decoded) |->
                    SelectSeq(filterLog, LAMBDA e : e.enqueued)[i].info.value]
    /\ decState # "errored"

C3_Witness ==
    /\ DecoderDone
    /\ \E i \in 1..Len(filterLog) :      \* a nested sub-object
          filterLog[i].info.parent # Undefined /\ filterLog[i].info.value.t = "object"
    /\ \E i \in 1..Len(filterLog) :      \* a root array
          filterLog[i].info.parent = Undefined /\ filterLog[i].info.value.t = "array"
    /\ \E i \in 1..Len(filterLog) :      \* a root scalar
          filterLog[i].info.parent = Undefined /\ filterLog[i].info.value.t = "number"

(***************************************************************************)
(* EventDecoderStream: decoded objects to validated StreamEvents.          *)
(***************************************************************************)
EventTypes == {"reasoning", "function_call", "output"}
EventStatuses == {"in_progress", "completed"}

\* the null that toStreamEvent returns for a rejected object
NullEvent == [null |-> TRUE]

isRecord(value) == value.t \in {"object", "array", "null"} /\ value.t # "null"

isEventType(value) ==
    value = JStr("reasoning") \/ value = JStr("function_call") \/ value = JStr("output")

isEventStatusAnyString(value) == value.t = "string"

isEventStatus(value) == value = JStr("in_progress") \/ value = JStr("completed")

toStreamEventNoDeltaTest(value) ==
    LET type == Get(value, "type")
        status == Get(value, "status")
    IN  IF ~isEventType(type) \/ ~isEventStatus(status) THEN NullEvent
        ELSE CASE type.s = "reasoning" -> [type |-> type.s, status |-> status.s]
               [] type.s = "function_call" ->
                    IF Get(value, "name").t # "string" THEN NullEvent
                    ELSE [type |-> type.s, status |-> status.s, name |-> Get(value, "name").s,
                          arguments |-> IF isRecord(Get(value, "arguments"))
                                        THEN Get(value, "arguments") ELSE Undefined]
               [] OTHER -> [type |-> type.s, status |-> status.s, delta |-> Get(value, "delta").s]

toStreamEvent(value) ==
    LET type == Get(value, "type")
        status == Get(value, "status")
    IN  IF ~isEventType(type) \/ ~isEventStatus(status) THEN NullEvent
        ELSE CASE type.s = "reasoning" -> [type |-> type.s, status |-> status.s]
               [] type.s = "function_call" ->
                    LET name == Get(value, "name")
                    IN  IF name.t # "string" THEN NullEvent
                        ELSE LET args == Get(value, "arguments")
                                 validated_args == IF isRecord(args) THEN args ELSE Undefined
                             IN  [type |-> type.s, status |-> status.s, name |-> name.s,
                                  arguments |-> validated_args]
               [] type.s = "output" ->
                    LET delta == Get(value, "delta")
                    IN  IF delta.t # "string" THEN NullEvent
                        ELSE [type |-> type.s, status |-> status.s, delta |-> delta.s]
               [] OTHER -> NullEvent

(***************************************************************************)
(* The decoded objects the validator is run on.  AllObjects varies every   *)
(* field the validator reads (absent, well typed, wrongly typed) and an    *)
(* unknown field; SeqObjects are the objects that sequences are built of.  *)
(***************************************************************************)
MaxObjs == 3

Opt(k, v) == IF v = Undefined THEN <<>> ELSE <<KV(k, v)>>

TypeValues == {Undefined, JStr("reasoning"), JStr("function_call"), JStr("output"),
               JStr("unknown"), JNum("1")}
StatusValues == {Undefined, JStr("in_progress"), JStr("completed"), JStr("done"), JTrue}
NameValues == {Undefined, JStr("search"), JStr(""), JNum("12")}
DeltaValues == {Undefined, JStr("Hi"), JStr(""), JNum("12"), JNull}
ArgumentsValues == {Undefined, JObj(<<KV("q", JStr("x"))>>), JObj(<<>>),
                    JArr(<<KV("", JStr("x"))>>), JStr("x"), JNull}
ExtraValues == {Undefined, JStr("x")}

AllObjects ==
    { JObj(Opt("type", ty) \o Opt("status", st) \o Opt("name", nm)
           \o Opt("arguments", ar) \o Opt("delta", de) \o Opt("extra", ex)) :
        <<ty, st, nm, ar, de, ex>> \in
          { t \in TypeValues \X StatusValues \X NameValues \X ArgumentsValues
                  \X DeltaValues \X ExtraValues :
              /\ t[1] # JStr("function_call") => (t[3] = Undefined /\ t[4] = Undefined)
              /\ t[1] = JStr("function_call") => t[5] = Undefined
              /\ t[1] \in {Undefined, JStr("unknown"), JNum("1")} => t[5] = Undefined } }

Event(type, status, rest) == JObj(<<KV("type", JStr(type)), KV("status", JStr(status))>> \o rest)

SeqObjects ==
    { Event("reasoning", "in_progress", <<>>),
      Event("function_call", "completed", <<KV("name", JStr("search"))>>),
      Event("output", "in_progress", <<KV("delta", JStr("Hi"))>>),
      Event("output", "completed", <<KV("delta", JStr("!"))>>),
      Event("output", "in_progress", <<>>),
      Event("unknown", "in_progress", <<>>),
      Event("function_call", "in_progress", <<KV("name", JNum("12"))>>) }

ObjectSeqs ==
    {<<o>> : o \in AllObjects} \cup UNION {[1..n -> SeqObjects] : n \in 2..MaxObjs}

(***************************************************************************)
(* SpecValidator: decoded objects piped through EventDecoderStream.        *)
(***************************************************************************)
DecIdle ==
    /\ lines = <<>> /\ trailing = FALSE /\ doc = <<>> /\ pos = 0
    /\ parser = NewJSONParser("\n") /\ parserOut = <<>> /\ decoded = <<>>
    /\ filterLog = <<>> /\ decState = "open" /\ midSplit = FALSE /\ multiChunk = FALSE

ValInit ==
    /\ valIn \in ObjectSeqs
    /\ valSeen = <<>>
    /\ valOut = <<>>
    /\ DecIdle
    /\ AppIdle
    /\ NetIdle
    /\ StoreIdle

\* transform: the next chunk is validated and enqueued unless rejected
TransformEnqueueAlways ==
    /\ valIn # <<>>
    /\ valSeen' = Append(valSeen, [obj |-> Head(valIn), event |-> toStreamEvent(Head(valIn))])
    /\ valOut' = Append(valOut, toStreamEvent(Head(valIn)))
    /\ valIn' = Tail(valIn)
    /\ UNCHANGED <<decVars, appVars, netVars, storeVars>>

Transform ==
    /\ valIn # <<>>
    /\ LET chunk == Head(valIn)
           event == toStreamEvent(chunk)
       IN  /\ valSeen' = Append(valSeen, [obj |-> chunk, event |-> event])
           /\ valOut' = IF event # NullEvent THEN Append(valOut, event) ELSE valOut
    /\ valIn' = Tail(valIn)
    /\ UNCHANGED <<decVars, appVars, netVars, storeVars>>

ValNext == Transform

SpecValidator == ValInit /\ [][ValNext]_vars

\* the acceptance condition in terms of the fields of the object
HasString(value, key) == Get(value, key).t = "string"

Accepted(value) ==
    /\ HasString(value, "type") /\ Get(value, "type").s \in EventTypes
    /\ HasString(value, "status") /\ Get(value, "status").s \in EventStatuses
    /\ Get(value, "type").s = "function_call" => HasString(value, "name")
    /\ Get(value, "type").s = "output" => HasString(value, "delta")

\* C4: an object yields an event exactly when its type and status are
\* recognised and the field its variant requires is a string, whatever other
\* fields it has; every emitted event has a valid type and a valid status.
C4_AcceptedIffWellFormed ==
    /\ \A i \in 1..Len(valSeen) :
          (valSeen[i].event # NullEvent) <=> Accepted(valSeen[i].obj)
    /\ \A i \in 1..Len(valOut) :
          valOut[i].type \in EventTypes /\ valOut[i].status \in EventStatuses

C4_Witness ==
    /\ \E i \in 1..Len(valSeen) :
          /\ valSeen[i].event # NullEvent
          /\ Get(valSeen[i].obj, "extra") # Undefined
          /\ valOut # <<>>
          /\ valOut[Len(valOut)].type = "output"

\* C5: a function_call with a string name is never rejected because of its
\* arguments, and the event carries arguments only when the decoded value is
\* a plain record (an object that is neither null nor an array); otherwise
\* the field is undefined.
IsPlainRecord(value) == value.t = "object"

C5_ArgumentsOnlyIfPlainRecord ==
    \A i \in 1..Len(valSeen) :
        LET o == valSeen[i].obj
        IN  (/\ Get(o, "type") = JStr("function_call")
             /\ isEventStatus(Get(o, "status"))
             /\ HasString(o, "name"))
            => /\ valSeen[i].event # NullEvent
               /\ valSeen[i].event.arguments =
                     IF IsPlainRecord(Get(o, "arguments")) THEN Get(o, "arguments") ELSE Undefined

\* C6: the events enqueued are those of the accepted objects, one each, in
\* input order; a rejected object leaves no element behind.
AcceptedObjects == SelectSeq([i \in 1..Len(valSeen) |-> valSeen[i].obj], Accepted)

C6_OrderPreservingFilter ==
    /\ Len(valOut) = Len(AcceptedObjects)
    /\ \A i \in 1..Len(valOut) : valOut[i] = toStreamEvent(AcceptedObjects[i])
    /\ \A i \in 1..Len(valOut) : valOut[i] # NullEvent

C6_Witness ==
    /\ valIn = <<>> /\ Len(valSeen) = 3
    /\ valSeen[1].event # NullEvent
    /\ valSeen[2].event = NullEvent
    /\ valSeen[3].event # NullEvent
    /\ valSeen[1].event # valSeen[3].event
    /\ valOut = <<valSeen[1].event, valSeen[3].event>>

(***************************************************************************)
(* AssistantComponent.  Markdown and HTML text is a sequence of pieces, a  *)
(* line break being the piece "\n".                                        *)
(***************************************************************************)
MaxSends == 2     \* non-blank submissions in a run
MaxEvents == 3    \* stream events delivered in a run; none is submitted after the last

Contains(text, piece) == \E i \in 1..Len(text) : text[i] = piece

\* marked.parse with { breaks: true }: nothing for the empty text, otherwise
\* a paragraph in which every line break is a <br>
Render(text) ==
    IF text = <<>> THEN <<>>
    ELSE <<"<p>">> \o [i \in 1..Len(text) |-> IF text[i] = "\n" THEN "<br>" ELSE text[i]]
         \o <<"</p>">>

Msg(turn, content, final) == [turn |-> turn, content |-> content, final |-> final]
NoMessage == Msg("none", <<>>, FALSE)
NoError == [none |-> TRUE]

\* addMessage up to its push: the message built from Markdown content
NewMessage(content, type, final) == Msg(type, Render(content), final)

WELCOME_MESSAGE == <<"Welcome to the ROCm Documentation!", "\n", "\n", "How can I assist you today?">>
StreamErrorOutput == <<"Sorry, something went wrong. Please refresh and try again later.">>
RequestErrorFallback == <<"Sorry, the request failed. Please try again later.">>

\* the ChatErrors generateResponse throws
ChatErrors ==
    { [message |-> "Sorry, you've sent too many requests too quickly. Please wait 30s to try again.", status |-> 429],
      [message |-> "Sorry, the request timed out. Please try again."] }

\* e?.message ?? fallback
ErrorOutput(e) == IF "message" \in DOMAIN e THEN <<e.message>> ELSE RequestErrorFallback

RECURSIVE JoinLines(_)
JoinLines(items) ==
    IF items = <<>> THEN <<>>
    ELSE IF Len(items) = 1 THEN <<items[1]>>
    ELSE <<items[1], "\n">> \o JoinLines(Tail(items))

formatURLsList(args) ==
    LET urls == Get(args, "urls")
    IN  IF urls.t # "array" THEN <<>>
        ELSE LET strings == SelectSeq(urls.kv, LAMBDA m : m.v.t = "string")
             IN  JoinLines([i \in 1..Len(strings) |-> "- " \o strings[i].v.s])

getProgressLabel(event) ==
    IF event.type = "reasoning" THEN <<"Thinking...">>
    ELSE CASE event.name = "retrieve_web_links" -> <<"Searching for relevant pages...">>
           [] event.name = "fetch_page_content" ->
                <<"Retrieving page content...", "\n">> \o formatURLsList(event.arguments)
           [] OTHER -> <<"Processing...">>

\* onProgressEvent: whether the event leaves a status entry in the history
persistsStatusAnyCompleted(event) == event.status = "completed"

persistsStatus(event) == event.status = "completed" /\ event.type = "function_call"

\* the events a response stream can deliver
ReasoningEvent(status) == [type |-> "reasoning", status |-> status]
FunctionCallEvent(status, name, args) ==
    [type |-> "function_call", status |-> status, name |-> name, arguments |-> args]
OutputEvent(status, delta) == [type |-> "output", status |-> status, delta |-> delta]

ProgressEvents ==
    { ReasoningEvent("completed"),
      FunctionCallEvent("in_progress", "retrieve_web_links", JObj(<<KV("query", JStr("rocm"))>>)),
      FunctionCallEvent("completed", "fetch_page_content",
                        JObj(<<KV("urls", JArr(<<KV("", JStr("http://a")), KV("", JNum("1"))>>))>>)) }

OutputEvents ==
    { OutputEvent("in_progress", <<"Hi">>),
      OutputEvent("completed", <<"a", "\n", "b">>) }

\* session ids the server answers with
SessionIds == {"", "s1"}

\* what the user types
Inputs == {" ", "q1", " q2 "}
Trim(userInput) ==
    CASE userInput = " " -> ""
      [] userInput = " q2 " -> "q2"
      [] OTHER -> userInput

(***************************************************************************)
(* Spec: the component from page load on.  Store writes complete.          *)
(***************************************************************************)
Init ==
    /\ DecIdle
    /\ ValIdle
    /\ AppIdle
    /\ NetIdle
    /\ StoreIdle

\* ngOnInit -> loadChat: the welcome message (not saved), then the history
LoadChat ==
    /\ ~loaded
    /\ loaded' = TRUE
    /\ messages' = <<NewMessage(WELCOME_MESSAGE, "assistant", TRUE)>> \o history
    /\ UNCHANGED <<decVars, valVars, netVars, history, sessionStore, sessionTx, isAwaiting, streamProgress, output,
                   userRequest, sends, events, onSend, req, cons, storeVars>>

\* onSend(userInput) up to the await of saveChatMessage, or its early return
\* for a blank input; the input box is locked while isAwaiting
OnSendNoBlankTest(userInput) ==
    /\ loaded /\ ~isAwaiting /\ onSend.pc \in {"idle", "returned"}
    /\ sends < MaxSends /\ events < MaxEvents
    /\ messages' = Append(messages, NewMessage(<<userInput>>, "user", TRUE))
    /\ onSend' = [pc |-> "save", input |-> userInput, message |-> messages'[Len(messages')]]
    /\ sends' = sends + 1
    /\ UNCHANGED <<decVars, valVars, netVars, loaded, history, sessionStore, sessionTx, isAwaiting, streamProgress,
                   output, userRequest, events, req, cons, storeVars>>

OnSend(userInput) ==
    /\ loaded /\ ~isAwaiting /\ onSend.pc \in {"idle", "returned"}
    /\ sends < MaxSends /\ events < MaxEvents
    /\ IF Trim(userInput) = ""
       THEN /\ onSend' = [pc |-> "returned", input |-> userInput]   \* the early return
            /\ UNCHANGED <<messages, sends>>
       ELSE /\ messages' = Append(messages, NewMessage(<<userInput>>, "user", TRUE))
            /\ onSend' = [pc |-> "save", input |-> userInput, message |-> messages'[Len(messages')]]
            /\ sends' = sends + 1
    /\ UNCHANGED <<decVars, valVars, netVars, loaded, history, sessionStore, sessionTx, isAwaiting, streamProgress,
                   output, userRequest, events, req, cons, storeVars>>

\* onSend after the save: lock the input and set userRequest; a changed
\* userRequest makes the resource run its stream loader, which creates the
\* output signal and calls sendRequest (up to the await of getChatId)
OnSendSaved ==
    /\ onSend.pc = "save"
    /\ history' = Append(history, onSend.message)
    /\ isAwaiting' = TRUE
    /\ userRequest' = onSend.input
    /\ onSend' = NoCall
    /\ IF userRequest' # userRequest
       THEN /\ output' = <<>>
            /\ req' = [pc |-> "getChatId", no |-> sends, query |-> onSend.input,
                       sessionId |-> "", calls |-> 0, response |-> "", error |-> NoError,
                       message |-> NoMessage, base |-> Len(messages),
                       baseHistory |-> Len(history'),
                       \* the session id the server last answered with
                       serverId |-> IF req.pc = "idle" THEN "" ELSE req.serverId]
       ELSE UNCHANGED <<output, req>>
    /\ UNCHANGED <<decVars, valVars, netVars, loaded, messages, sessionStore, sessionTx, streamProgress, sends,
                   events, cons, storeVars>>

\* sendRequest: getChatId has answered.  Its read-only transaction on the
\* session store runs after the read/write transactions created before it
GetChatId ==
    /\ req.pc = "getChatId"
    /\ sessionTx = <<>>
    /\ req' = [req EXCEPT !.pc = "generate", !.sessionId = sessionStore]
    /\ UNCHANGED <<decVars, valVars, netVars, loaded, messages, history, sessionStore, sessionTx, isAwaiting,
                   streamProgress, output, userRequest, sends, events, onSend, cons, storeVars>>

\* sendRequest: generateResponse returned a stream and the session id sid;
\* consumeStream is started (it runs up to its first read of the stream) and
\* for a new session id saveChatId is called (up to the await of its
\* transaction)
GenerateOkNotSaving(sid) ==
    /\ req.pc = "generate"
    /\ cons' = [pc |-> "read", no |-> req.no, text |-> <<>>, delivered |-> <<>>,
                base |-> Len(messages), baseHistory |-> Len(history), ended |-> "no",
                message |-> NoMessage]
    /\ req' = [req EXCEPT !.calls = @ + 1, !.response = sid, !.serverId = IF sid # "" THEN sid ELSE @,
                            !.pc = "done"]
    /\ UNCHANGED <<decVars, valVars, netVars, loaded, messages, history, sessionStore, sessionTx, isAwaiting,
                   streamProgress, output, userRequest, sends, events, onSend, storeVars>>

GenerateOk(sid) ==
    /\ req.pc = "generate"
    /\ cons' = [pc |-> "read", no |-> req.no, text |-> <<>>, delivered |-> <<>>,
                base |-> Len(messages), baseHistory |-> Len(history), ended |-> "no",
                message |-> NoMessage]
    /\ IF sid # "" /\ req.sessionId # sid
       THEN /\ req' = [req EXCEPT !.calls = @ + 1, !.response = sid, !.serverId = IF sid # "" THEN sid ELSE @,
                            !.pc = "saveChatId"]
            /\ sessionTx' = Append(sessionTx, sid)
       ELSE /\ req' = [req EXCEPT !.calls = @ + 1, !.response = sid, !.serverId = IF sid # "" THEN sid ELSE @,
                            !.pc = "done"]
            /\ sessionTx' = sessionTx
    /\ UNCHANGED <<decVars, valVars, netVars, loaded, messages, history, sessionStore, isAwaiting,
                   streamProgress, output, userRequest, sends, events, onSend, storeVars>>

\* the saveChatId transaction completes; the sendRequest that awaits it
\* returns, unless a later submission has replaced it in the resource
SaveChatIdDone ==
    /\ sessionTx # <<>>
    /\ sessionStore' = Head(sessionTx)
    /\ sessionTx' = Tail(sessionTx)
    /\ req' = IF req.pc = "saveChatId" THEN [req EXCEPT !.pc = "done"] ELSE req
    /\ UNCHANGED <<decVars, valVars, netVars, loaded, messages, history, isAwaiting, streamProgress,
                   output, userRequest, sends, events, onSend, cons, storeVars>>

\* sendRequest: generateResponse threw e; the catch block adds the error
\* message (up to the await of saveChatMessage)
GenerateFailsRetrying(e) ==
    /\ req.pc = "generate"
    /\ req.calls = 0
    /\ req' = [req EXCEPT !.calls = @ + 1]
    /\ UNCHANGED <<decVars, valVars, netVars, loaded, messages, history, sessionStore, sessionTx, isAwaiting,
                   streamProgress, output, userRequest, sends, events, onSend, cons, storeVars>>

GenerateFails(e) ==
    /\ req.pc = "generate"
    /\ messages' = Append(messages, NewMessage(ErrorOutput(e), "assistant", TRUE))
    /\ req' = [req EXCEPT !.calls = @ + 1, !.pc = "catchSave", !.error = e,
                          !.message = messages'[Len(messages')]]
    /\ UNCHANGED <<decVars, valVars, netVars, loaded, history, sessionStore, sessionTx, isAwaiting, streamProgress,
                   output, userRequest, sends, events, onSend, cons, storeVars>>

\* sendRequest: the catch block after the save
CatchSaved ==
    /\ req.pc = "catchSave"
    /\ history' = Append(history, req.message)
    /\ output' = <<>>
    /\ isAwaiting' = FALSE
    /\ streamProgress' = <<>>
    /\ req' = [req EXCEPT !.pc = "failed"]
    /\ UNCHANGED <<decVars, valVars, netVars, loaded, messages, sessionStore, sessionTx, userRequest, sends,
                   events, onSend, cons, storeVars>>

\* pipeStream: the stream delivers a reasoning or function_call event;
\* onProgressEvent sets the label and, for a completed tool call, adds the
\* status message (up to the await of saveChatMessage)
PipeProgress(event) ==
    /\ cons.pc = "read"
    /\ events < MaxEvents
    /\ events' = events + 1
    /\ streamProgress' = Render(getProgressLabel(event))
    /\ IF persistsStatus(event)
       THEN /\ messages' = Append(messages, NewMessage(getProgressLabel(event), "assistant", FALSE))
            /\ cons' = [cons EXCEPT !.delivered = Append(@, event), !.pc = "saveStatus",
                                    !.message = messages'[Len(messages')]]
       ELSE /\ messages' = messages
            /\ cons' = [cons EXCEPT !.delivered = Append(@, event)]
    /\ UNCHANGED <<decVars, valVars, netVars, loaded, history, sessionStore, sessionTx, isAwaiting, output,
                   userRequest, sends, onSend, req, storeVars>>

\* onProgressEvent after the save of the status message
StatusSaved ==
    /\ cons.pc = "saveStatus"
    /\ history' = Append(history, cons.message)
    /\ cons' = [cons EXCEPT !.pc = "read"]
    /\ UNCHANGED <<decVars, valVars, netVars, loaded, messages, sessionStore, sessionTx, isAwaiting, streamProgress,
                   output, userRequest, sends, events, onSend, req, storeVars>>

PipeOutputPrepending(event) ==
    /\ cons.pc = "read"
    /\ events < MaxEvents
    /\ events' = events + 1
    /\ LET text == event.delta \o cons.text
       IN  /\ cons' = [cons EXCEPT !.delivered = Append(@, event), !.text = text]
           /\ output' = IF Contains(event.delta, "\n") THEN Render(text)
                        ELSE output \o event.delta
    /\ streamProgress' = <<>>
    /\ UNCHANGED <<decVars, valVars, netVars, loaded, messages, history, sessionStore, sessionTx, isAwaiting,
                   userRequest, sends, onSend, req, storeVars>>

PipeOutputSavingPartial(event) ==
    /\ cons.pc = "read"
    /\ events < MaxEvents
    /\ events' = events + 1
    /\ LET text == cons.text \o event.delta
       IN  /\ cons' = [cons EXCEPT !.delivered = Append(@, event), !.text = text]
           /\ output' = IF Contains(event.delta, "\n") THEN Render(text)
                        ELSE output \o event.delta
           /\ history' = Append(history, NewMessage(text, "assistant", TRUE))
    /\ streamProgress' = <<>>
    /\ UNCHANGED <<decVars, valVars, netVars, loaded, messages, sessionStore, sessionTx, isAwaiting,
                   userRequest, sends, onSend, req, storeVars>>

PipeOutputAlwaysRendering(event) ==
    /\ cons.pc = "read"
    /\ events < MaxEvents
    /\ events' = events + 1
    /\ LET text == cons.text \o event.delta
       IN  /\ cons' = [cons EXCEPT !.delivered = Append(@, event), !.text = text]
           /\ output' = Render(text)
    /\ streamProgress' = <<>>
    /\ UNCHANGED <<decVars, valVars, netVars, loaded, messages, history, sessionStore, sessionTx, isAwaiting,
                   userRequest, sends, onSend, req, storeVars>>

\* pipeStream: the stream delivers an output event; onOutputEvent clears the
\* label and re-renders the cumulative text on a newline, or else appends the
\* raw delta to the rendered text
PipeOutput(event) ==
    /\ cons.pc = "read"
    /\ events < MaxEvents
    /\ events' = events + 1
    /\ LET text == cons.text \o event.delta
       IN  /\ cons' = [cons EXCEPT !.delivered = Append(@, event), !.text = text]
           /\ output' = IF Contains(event.delta, "\n") THEN Render(text)
                        ELSE output \o event.delta
    /\ streamProgress' = <<>>
    /\ UNCHANGED <<decVars, valVars, netVars, loaded, messages, history, sessionStore, sessionTx, isAwaiting,
                   userRequest, sends, onSend, req, storeVars>>

StreamClosesKeepingLiveOutput ==
    /\ cons.pc = "read"
    /\ messages' = Append(messages, Msg("assistant", output, TRUE))
    /\ cons' = [cons EXCEPT !.pc = "saveFinal", !.ended = "closed",
                              !.message = messages'[Len(messages')]]
    /\ UNCHANGED <<decVars, valVars, netVars, loaded, history, sessionStore, sessionTx, isAwaiting, streamProgress,
                   output, userRequest, sends, events, onSend, req, storeVars>>

\* consumeStream: the stream closed, pipeStream returned the text and the
\* answer is added (up to the await of saveChatMessage)
StreamCloses ==
    /\ cons.pc = "read"
    /\ messages' = Append(messages, NewMessage(cons.text, "assistant", TRUE))
    /\ cons' = [cons EXCEPT !.pc = "saveFinal", !.ended = "closed",
                              !.message = messages'[Len(messages')]]
    /\ UNCHANGED <<decVars, valVars, netVars, loaded, history, sessionStore, sessionTx, isAwaiting, streamProgress,
                   output, userRequest, sends, events, onSend, req, storeVars>>

\* consumeStream: the stream raised; the catch block adds the error message
\* (up to the await of saveChatMessage)
StreamRaisesKeepingPartial ==
    /\ cons.pc = "read"
    /\ messages' = messages \o <<NewMessage(cons.text, "assistant", TRUE)>>
    /\ cons' = [cons EXCEPT !.pc = "saveFinal", !.ended = "errored",
                              !.message = messages'[Len(messages')]]
    /\ UNCHANGED <<decVars, valVars, netVars, loaded, history, sessionStore, sessionTx, isAwaiting, streamProgress,
                   output, userRequest, sends, events, onSend, req, storeVars>>

StreamRaises ==
    /\ cons.pc = "read"
    /\ messages' = Append(messages, NewMessage(StreamErrorOutput, "assistant", TRUE))
    /\ cons' = [cons EXCEPT !.pc = "saveFinal", !.ended = "errored",
                              !.message = messages'[Len(messages')]]
    /\ UNCHANGED <<decVars, valVars, netVars, loaded, history, sessionStore, sessionTx, isAwaiting, streamProgress,
                   output, userRequest, sends, events, onSend, req, storeVars>>

\* consumeStream: the final message is saved and the finally block runs
FinalSavedKeepingOutput ==
    /\ cons.pc = "saveFinal"
    /\ history' = Append(history, cons.message)
    /\ isAwaiting' = FALSE
    /\ streamProgress' = <<>>
    /\ cons' = [cons EXCEPT !.pc = "done"]
    /\ UNCHANGED <<decVars, valVars, netVars, loaded, messages, sessionStore, sessionTx, userRequest, sends,
                   events, onSend, req, output, storeVars>>

FinalSaved ==
    /\ cons.pc = "saveFinal"
    /\ history' = Append(history, cons.message)
    /\ output' = <<>>
    /\ isAwaiting' = FALSE
    /\ streamProgress' = <<>>
    /\ cons' = [cons EXCEPT !.pc = "done"]
    /\ UNCHANGED <<decVars, valVars, netVars, loaded, messages, sessionStore, sessionTx, userRequest, sends,
                   events, onSend, req, storeVars>>

Next ==
    \/ LoadChat
    \/ \E userInput \in Inputs : OnSend(userInput)
    \/ OnSendSaved
    \/ GetChatId
    \/ \E sid \in SessionIds : GenerateOk(sid)
    \/ SaveChatIdDone
    \/ \E e \in ChatErrors : GenerateFails(e)
    \/ CatchSaved
    \/ \E event \in ProgressEvents : PipeProgress(event)
    \/ StatusSaved
    \/ \E event \in OutputEvents : PipeOutput(event)
    \/ StreamCloses
    \/ StreamRaises
    \/ FinalSaved

Spec == Init /\ [][Next]_vars

(***************************************************************************)
(* SpecStoreFaults: the component with a session store whose write         *)
(* transaction can fail.                                                   *)
(***************************************************************************)
\* what a failed transaction rejects with: transaction.error, which is null
\* for an abort without an error
StoreErrors ==
    { [name |-> "null"],
      [name |-> "QuotaExceededError", message |-> "The quota has been exceeded."] }

\* sendRequest: the saveChatId it awaits rejects with e while consumeStream
\* runs in the background; the catch block adds the error message (up to the
\* await of saveChatMessage)
SaveChatIdFails(e) ==
    /\ req.pc = "saveChatId"
    /\ sessionTx # <<>>
    /\ sessionTx' = Tail(sessionTx)
    /\ messages' = Append(messages, NewMessage(ErrorOutput(e), "assistant", TRUE))
    /\ req' = [req EXCEPT !.pc = "catchSave", !.error = e,
                          !.message = messages'[Len(messages')]]
    /\ UNCHANGED <<decVars, valVars, netVars, loaded, history, sessionStore, isAwaiting, streamProgress,
                   output, userRequest, sends, events, onSend, cons, storeVars>>

\* a failed save unlocks the input while the stream is still consumed, so
\* the steps of the next submission interleave with the events of the
\* stream; the streams here deliver one kind of progress event and one kind
\* of output event
StoreFaultsNext ==
    \/ LoadChat
    \/ \E userInput \in Inputs : OnSend(userInput)
    \/ OnSendSaved
    \/ GetChatId
    \/ \E sid \in SessionIds : GenerateOk(sid)
    \/ SaveChatIdDone
    \/ \E e \in StoreErrors : SaveChatIdFails(e)
    \/ \E e \in ChatErrors : GenerateFails(e)
    \/ CatchSaved
    \/ \E event \in {e \in ProgressEvents : persistsStatus(e)} : PipeProgress(event)
    \/ StatusSaved
    \/ \E event \in {e \in OutputEvents : e.status = "completed"} : PipeOutput(event)
    \/ StreamCloses
    \/ StreamRaises
    \/ FinalSaved

SpecStoreFaults == Init /\ [][StoreFaultsNext]_vars

(***************************************************************************)
(* SpecStream: one run of consumeStream, from the state in which           *)
(* sendRequest has started it for the first request, over output events    *)
(* that split the same text in different ways.                             *)
(***************************************************************************)
StreamOutputEvents ==
    { OutputEvent("in_progress", <<"a">>),
      OutputEvent("in_progress", <<"a", "\n">>),
      OutputEvent("in_progress", <<"b">>),
      OutputEvent("in_progress", <<"\n", "b">>),
      OutputEvent("completed", <<"a", "\n", "b">>) }

StreamInit ==
    /\ DecIdle
    /\ ValIdle
    /\ NetIdle
    /\ StoreIdle
    /\ loaded = TRUE
    /\ messages = <<NewMessage(WELCOME_MESSAGE, "assistant", TRUE), NewMessage(<<"q1">>, "user", TRUE)>>
    /\ history = <<NewMessage(<<"q1">>, "user", TRUE)>>
    /\ sessionStore = ""
    /\ sessionTx = <<>>
    /\ isAwaiting = TRUE
    /\ streamProgress = <<>>
    /\ output = <<>>
    /\ userRequest = "q1"
    /\ sends = 1
    /\ events = 0
    /\ onSend = NoCall
    /\ req = [pc |-> "done", no |-> 1, query |-> "q1", sessionId |-> "", calls |-> 1,
              response |-> "", error |-> NoError, message |-> NoMessage, base |-> 2,
              baseHistory |-> 1, serverId |-> ""]
    /\ cons = [pc |-> "read", no |-> 1, text |-> <<>>, delivered |-> <<>>, base |-> 2,
               baseHistory |-> 1, ended |-> "no", message |-> NoMessage]

StreamNext ==
    \/ \E event \in ProgressEvents : PipeProgress(event)
    \/ StatusSaved
    \/ \E event \in StreamOutputEvents : PipeOutput(event)
    \/ StreamCloses
    \/ StreamRaises
    \/ FinalSaved

SpecStream == StreamInit /\ [][StreamNext]_vars

(***************************************************************************)
(* Claims about consumeStream and sendRequest.                             *)
(***************************************************************************)
IsCompletedCall(event) == event.type = "function_call" /\ event.status = "completed"

\* the status entries the completed tool calls of the stream leave behind
StatusMessages(delivered) ==
    LET calls == SelectSeq(delivered, IsCompletedCall)
    IN  [i \in 1..Len(calls) |-> Msg("assistant", Render(getProgressLabel(calls[i])), FALSE)]

RECURSIVE ConcatDeltas(_)
ConcatDeltas(delivered) ==
    IF delivered = <<>> THEN <<>>
    ELSE (IF Head(delivered).type = "output" THEN Head(delivered).delta ELSE <<>>)
         \o ConcatDeltas(Tail(delivered))

\* what the running consumeStream has appended to the live list and the store
ConsAdded == SubSeq(messages, cons.base + 1, Len(messages))
ConsSaved == SubSeq(history, cons.baseHistory + 1, Len(history))

\* consumeStream has returned and nothing was submitted since
ConsumeReturned == cons.pc = "done" /\ sends = cons.no

SignalsCleared == ~isAwaiting /\ streamProgress = <<>> /\ output = <<>>

\* C7: after a stream that closed without error, consumeStream has appended
\* to the live list and to the store the status entries of the completed
\* tool calls followed by exactly one final assistant message, the render of
\* all output deltas concatenated; isAwaiting is false, the progress label
\* and the live output are empty.
C7_NormalCompletion ==
    (ConsumeReturned /\ cons.ended = "closed") =>
        /\ ConsAdded = StatusMessages(cons.delivered)
                         \o <<Msg("assistant", Render(ConcatDeltas(cons.delivered)), TRUE)>>
        /\ ConsSaved = ConsAdded
        /\ Len(ConsAdded) = Len(SelectSeq(cons.delivered, IsCompletedCall)) + 1
        /\ Cardinality({i \in 1..Len(ConsAdded) : ConsAdded[i].final}) = 1
        /\ SignalsCleared

C7_Witness ==
    /\ ConsumeReturned /\ cons.ended = "closed"
    /\ Len(SelectSeq(cons.delivered, IsCompletedCall)) >= 1
    /\ Len(SelectSeq(cons.delivered, LAMBDA e : e.type = "output")) >= 2
    /\ Len(history) = cons.baseHistory + 2

\* C8: every reasoning or function_call event sets the progress label to
\* the label of that event; a status message (assistant, not final, the label
\* as content) is appended to the live list and then to the store exactly
\* for the completed function_call events, and for no other progress event.
C8_ProgressEvents ==
    cons.pc \in {"read", "saveStatus"} =>
        /\ ConsAdded = StatusMessages(cons.delivered)
        /\ cons.pc = "read" => ConsSaved = ConsAdded
        /\ cons.pc = "saveStatus" =>
              /\ IsCompletedCall(cons.delivered[Len(cons.delivered)])
              /\ ConsSaved = SubSeq(ConsAdded, 1, Len(ConsAdded) - 1)
        /\ (cons.delivered # <<>> /\ cons.delivered[Len(cons.delivered)].type # "output") =>
              streamProgress = Render(getProgressLabel(cons.delivered[Len(cons.delivered)]))

C8_Witness ==
    /\ cons.pc = "read" /\ Len(cons.delivered) = 3
    /\ cons.delivered[1].type = "output"
    /\ IsCompletedCall(cons.delivered[2])
    /\ cons.delivered[3] = ReasoningEvent("completed")
    /\ Len(ConsSaved) = 1 /\ ~ConsSaved[1].final
    /\ streamProgress = Render(<<"Thinking...">>)

\* C9: after a stream that raised, consumeStream has appended exactly one
\* final assistant message, the error text; the text accumulated from the
\* deltas is neither in the live list nor in the store; the signals are
\* cleared as on normal completion.
C9_StreamError ==
    (ConsumeReturned /\ cons.ended = "errored") =>
        /\ ConsAdded = StatusMessages(cons.delivered)
                         \o <<Msg("assistant", Render(StreamErrorOutput), TRUE)>>
        /\ ConsSaved = ConsAdded
        /\ Cardinality({i \in 1..Len(ConsAdded) : ConsAdded[i].final}) = 1
        /\ cons.text # <<>> =>
              \A i \in 1..Len(ConsSaved) : ConsSaved[i].content # Render(cons.text)
        /\ SignalsCleared

C9_Witness ==
    /\ ConsumeReturned /\ cons.ended = "errored"
    /\ cons.text = ConcatDeltas(cons.delivered) /\ Len(cons.text) >= 2
    /\ history[Len(history)].content = Render(StreamErrorOutput)

\* C10: when generateResponse fails, sendRequest appends to the live list
\* and the store exactly one final assistant message, the rendered message
\* of the error, clears isAwaiting, the progress label and the live output,
\* starts no consumeStream for the request, and has called generateResponse
\* once.
RequestFailed == req.pc = "failed" /\ sends = req.no

C10_RequestFailure ==
    /\ req.pc # "idle" => req.calls <= 1
    /\ RequestFailed =>
          /\ SubSeq(messages, req.base + 1, Len(messages))
                = <<Msg("assistant", Render(<<req.error.message>>), TRUE)>>
          /\ SubSeq(history, req.baseHistory + 1, Len(history))
                = <<Msg("assistant", Render(<<req.error.message>>), TRUE)>>
          /\ SignalsCleared
          /\ cons.pc # "idle" => cons.no # req.no
          /\ req.calls = 1

C10_Witness ==
    /\ RequestFailed
    /\ req.error.message = "Sorry, the request timed out. Please try again."
    /\ messages[Len(messages)].content
          = <<"<p>", "Sorry, the request timed out. Please try again.", "</p>">>

(***************************************************************************)
(* Claims about onSend.                                                    *)
(***************************************************************************)
\* the request of the latest submission has been started by the resource
RequestOfLastSend == req.pc # "idle" /\ req.no = sends

\* C11: onSend with a non-blank input appends the input as a final user
\* message to the live list and to the store, then sets isAwaiting and
\* triggers the request: once onSend has returned, sendRequest runs for that
\* submission, and the user message is in the store before generateResponse
\* is called.
C11_SendAppendsAndTriggers ==
    /\ onSend.pc = "save" =>
          /\ messages[Len(messages)] = Msg("user", Render(<<onSend.input>>), TRUE)
          /\ ~RequestOfLastSend
    /\ (sends > 0 /\ onSend.pc # "save") =>
          /\ RequestOfLastSend
          /\ messages[req.base] = Msg("user", Render(<<req.query>>), TRUE)
          /\ history[req.baseHistory] = messages[req.base]
          /\ req.pc \in {"getChatId", "generate"} => isAwaiting

\* the part of C11 that does not depend on the request being triggered
C11_MessageSavedBeforeRequest ==
    /\ onSend.pc = "save" =>
          messages[Len(messages)] = Msg("user", Render(<<onSend.input>>), TRUE)
    /\ RequestOfLastSend =>
          /\ messages[req.base] = Msg("user", Render(<<req.query>>), TRUE)
          /\ history[req.baseHistory] = messages[req.base]
          /\ req.pc \in {"getChatId", "generate"} => isAwaiting /\ req.calls = 0

\* C12: onSend with a blank input changes nothing: the live list, the store,
\* isAwaiting, the progress label and the live output stay as they are, and
\* no request is started.
BlankSend == onSend' # onSend /\ onSend'.pc # "idle" /\ Trim(onSend'.input) = ""

C12_BlankSendChangesNothing ==
    [][BlankSend => /\ onSend'.pc = "returned"
                    /\ UNCHANGED <<messages, history, sessionStore, sessionTx, isAwaiting, streamProgress,
                                   output, userRequest, req, cons>>]_vars

C12_Witness ==
    /\ onSend.pc = "returned" /\ onSend.input = " "
    /\ Len(history) >= 2 /\ ~isAwaiting

(***************************************************************************)
(* Claims about the text buffer of pipeStream.                             *)
(***************************************************************************)
\* the state SpecStream starts in is a state of the component
StreamInit_Witness == StreamInit

LastDelivered == cons.delivered[Len(cons.delivered)]

\* C13: after the k-th output event the progress label is empty and the text
\* buffer is the concatenation of the first k deltas in the order received;
\* progress events in between leave the buffer as it is.
C13_BufferIsConcatenation ==
    cons.pc # "idle" =>
        /\ cons.text = ConcatDeltas(cons.delivered)
        /\ (cons.pc = "read" /\ cons.delivered # <<>> /\ LastDelivered.type = "output") =>
              streamProgress = <<>>

C13_Witness ==
    /\ cons.pc = "read" /\ Len(cons.delivered) = 3
    /\ cons.delivered[1] = OutputEvent("in_progress", <<"a">>)
    /\ cons.delivered[2].type = "function_call"
    /\ cons.delivered[3] = OutputEvent("in_progress", <<"\n", "b">>)
    /\ cons.text = <<"a", "\n", "b">>
    /\ streamProgress = <<>>

\* pipeStream and the final addMessage of consumeStream run on a sequence of
\* deltas: the content of the final message
RECURSIVE pipeStreamText(_)
pipeStreamText(deltas) ==
    IF deltas = <<>> THEN <<>> ELSE Head(deltas) \o pipeStreamText(Tail(deltas))

FinalRenderedText(deltas) == Render(pipeStreamText(deltas))

\* every way of delivering text in up to MaxEvents deltas
DeltaSplits ==
    UNION {[1..n -> {e.delta : e \in StreamOutputEvents}] : n \in 0..MaxEvents}

\* C14: the final rendered text depends only on the total text: the final
\* message of a stream that closed is the final rendered text of every other
\* sequence of deltas that concatenates to the same text, whichever deltas
\* held a newline.
C14_FinalTextIndependentOfSplit ==
    cons.ended = "closed" =>
        \A deltas \in DeltaSplits :
            pipeStreamText(deltas) = ConcatDeltas(cons.delivered) =>
                messages[Len(messages)].content = FinalRenderedText(deltas)

C14_Witness ==
    /\ cons.pc = "saveFinal" /\ cons.ended = "closed"
    /\ cons.delivered = <<OutputEvent("in_progress", <<"a", "\n">>), OutputEvent("in_progress", <<"b">>)>>
    /\ output # messages[Len(messages)].content
    /\ messages[Len(messages)].content = FinalRenderedText(<<<<"a">>, <<"\n", "b">>>>)

C15_SaveInFlightAtNextRequest ==
    req.pc = "getChatId" /\ req.no = 2 /\ sessionTx = <<"s1">> /\ cons.pc = "done"

(***************************************************************************)
(* Claims about isAwaiting.                                                *)
(***************************************************************************)
\* the stream of the latest submission has been handed to consumeStream
StreamStarted == cons.pc # "idle" /\ cons.no = sends

\* the terminal step of the latest submission has run: the finally block of
\* consumeStream, or the catch block of sendRequest when there is no stream
RequestEnded ==
    \/ StreamStarted /\ cons.pc = "done"
    \/ ~StreamStarted /\ req.pc = "failed" /\ req.no = sends

\* C16: isAwaiting is true from the moment onSend sets it until the
\* terminal step of that request; no output delta, progress event or step of
\* sendRequest clears it while the stream is still being consumed.
C16_AwaitingUntilTerminalStep ==
    (sends > 0 /\ onSend.pc # "save" /\ ~RequestEnded) => isAwaiting

(***************************************************************************)
(* ResponseService.generateResponse: one POST /chat with a timeout timer.  *)
(* The fetch and the timer are the platform's; the model keeps of them     *)
(* what the code can observe: whether the fetch was given the abort        *)
(* signal, how it settled, and whether the timer's delay has elapsed.      *)
(***************************************************************************)
TIMEOUT == 120000

\* the timeout argument: omitted, null, or a number of milliseconds
TimeoutOmitted == [t |-> "undefined"]
TimeoutNull == [t |-> "null"]
TimeoutMs(ms) == [t |-> "number", ms |-> ms]
TimeoutArgs == {TimeoutOmitted, TimeoutNull, TimeoutMs(0), TimeoutMs(5000)}

\* the parameter after its default: timeout = this.TIMEOUT when omitted
TimeoutParam(arg) == IF arg = TimeoutOmitted THEN TimeoutMs(TIMEOUT) ELSE arg

\* timeout ?? this.TIMEOUT, the delay given to setTimeout
TimerDelay(arg) ==
    LET timeout == TimeoutParam(arg)
    IN  IF timeout = TimeoutNull THEN TIMEOUT ELSE timeout.ms

\* signal: timeout ? controller.signal : null -- null and 0 are falsy
HasSignal(arg) ==
    LET timeout == TimeoutParam(arg)
    IN  timeout # TimeoutNull /\ timeout.ms # 0

\* a response header: <<>> when absent, otherwise <<value>>
HeaderValues(present) == {<<>>, <<"">>, <<present>>}
Truthy(header) == header # <<>> /\ header[1] # ""

Statuses == {200, 204, 404, 429, 500}

\* the responses the server can send: status, body or null, two headers
Responses ==
    [status : Statuses, body : BOOLEAN,
     sessionHeader : HeaderValues("s1"), resetHeader : HeaderValues("30")]

\* response.ok
ResponseOk(response) == response.status >= 200 /\ response.status <= 299

RateLimitError(response) ==
    [message |-> "Sorry, you've sent too many requests too quickly. Please wait "
                 \o (IF Truthy(response.resetHeader)
                     THEN response.resetHeader[1] \o "s" ELSE "a moment")
                 \o " to try again.",
     status |-> response.status]
UnreachableError(response) ==
    [message |-> "Sorry, the server could not be reached.", status |-> response.status]
TimedOutError == [message |-> "Sorry, the request timed out. Please try again."]
RequestFailedError == [message |-> "Sorry, the request failed. Please try again."]

NoResult == [none |-> TRUE]
NoResponse == [none |-> TRUE]

MaxChunks == 2    \* chunks of one response body

\* clearTimeout(timeoutId): a timer that has fired stays fired
ClearTimeout(timer) == IF timer = "armed" THEN "cleared" ELSE timer

\* the call up to its await of fetch: controller, timer, request
GenerateResponse(arg) ==
    /\ gen.pc \in {"idle", "returned", "failed"}
    /\ net.state \in {"idle", "aborted", "rejected", "responded"}
    /\ net.state = "responded" => net.body # "open"
    /\ gen' = [pc |-> "fetch", timeout |-> arg, delay |-> TimerDelay(arg),
               timer |-> "armed", aborted |-> FALSE,
               result |-> NoResult, error |-> NoError]
    /\ net' = [state |-> "pending", signal |-> HasSignal(arg), elapsed |-> "no",
               response |-> NoResponse, body |-> "none", chunks |-> 0, read |-> 0]
    /\ UNCHANGED <<clr, clear, decVars, valVars, appVars, storeVars>>

\* the timer's delay elapses; if the timer is still armed its callback runs
\* controller.abort(), which aborts a fetch that was given the signal
TimeoutElapses ==
    /\ gen.pc # "idle" /\ net.elapsed = "no"
    /\ LET fires == gen.timer = "armed"
           aborts == fires /\ net.signal
       IN  /\ gen' = IF fires THEN [gen EXCEPT !.timer = "fired", !.aborted = TRUE]
                     ELSE gen
           /\ net' = [net EXCEPT
                        !.elapsed = IF net.state = "pending" THEN "pending"
                                    ELSE IF net.body = "open" THEN "body" ELSE "settled",
                        !.state = IF aborts /\ @ = "pending" THEN "aborted" ELSE @,
                        !.body = IF aborts /\ @ = "open" THEN "errored" ELSE @]
    /\ UNCHANGED <<clr, clear, decVars, valVars, appVars, storeVars>>

\* the headers arrive and fetch resolves: the rest of the try block, and the
\* catch block for the ChatError it throws
FetchRespondsNoRateLimitTest(response) ==
    /\ gen.pc = "fetch" /\ net.state = "pending"
    /\ net' = [net EXCEPT !.state = "responded", !.response = response,
                          !.body = IF response.body THEN "open" ELSE "none"]
    /\ gen' = IF ~ResponseOk(response) \/ ~response.body
              THEN [gen EXCEPT !.pc = "failed", !.timer = ClearTimeout(@),
                               !.error = UnreachableError(response)]
              ELSE [gen EXCEPT !.pc = "returned", !.timer = ClearTimeout(@),
                               !.result = [sessionId |-> IF Truthy(response.sessionHeader)
                                                         THEN response.sessionHeader[1] ELSE "",
                                           stream |-> "open"]]
    /\ UNCHANGED <<clr, clear, decVars, valVars, appVars, storeVars>>

FetchRespondsNoBodyTest(response) ==
    /\ gen.pc = "fetch" /\ net.state = "pending"
    /\ net' = [net EXCEPT !.state = "responded", !.response = response,
                          !.body = IF response.body THEN "open" ELSE "none"]
    /\ gen' = IF response.status = 429
              THEN [gen EXCEPT !.pc = "failed", !.timer = ClearTimeout(@),
                               !.error = RateLimitError(response)]
              ELSE IF ~ResponseOk(response)
              THEN [gen EXCEPT !.pc = "failed", !.timer = ClearTimeout(@),
                               !.error = UnreachableError(response)]
              ELSE [gen EXCEPT !.pc = "returned", !.timer = ClearTimeout(@),
                               !.result = [sessionId |-> IF Truthy(response.sessionHeader)
                                                         THEN response.sessionHeader[1] ELSE "",
                                           stream |-> "open"]]
    /\ UNCHANGED <<clr, clear, decVars, valVars, appVars, storeVars>>

FetchRespondsReadingFirst(response) ==
    /\ gen.pc = "fetch" /\ net.state = "pending"
    /\ net' = [net EXCEPT !.state = "responded", !.response = response,
                          !.body = IF response.body THEN "open" ELSE "none",
                          !.read = IF ResponseOk(response) /\ response.body THEN 1 ELSE 0]
    /\ gen' = IF response.status = 429
              THEN [gen EXCEPT !.pc = "failed", !.timer = ClearTimeout(@),
                               !.error = RateLimitError(response)]
              ELSE IF ~ResponseOk(response) \/ ~response.body
              THEN [gen EXCEPT !.pc = "failed", !.timer = ClearTimeout(@),
                               !.error = UnreachableError(response)]
              ELSE [gen EXCEPT !.pc = "returned", !.timer = ClearTimeout(@),
                               !.result = [sessionId |-> IF Truthy(response.sessionHeader)
                                                         THEN response.sessionHeader[1] ELSE "",
                                           stream |-> "open"]]
    /\ UNCHANGED <<clr, clear, decVars, valVars, appVars, storeVars>>

FetchResponds(response) ==
    /\ gen.pc = "fetch" /\ net.state = "pending"
    /\ net' = [net EXCEPT !.state = "responded", !.response = response,
                          !.body = IF response.body THEN "open" ELSE "none"]
    /\ gen' = IF response.status = 429
              THEN [gen EXCEPT !.pc = "failed", !.timer = ClearTimeout(@),
                               !.error = RateLimitError(response)]
              ELSE IF ~ResponseOk(response) \/ ~response.body
              THEN [gen EXCEPT !.pc = "failed", !.timer = ClearTimeout(@),
                               !.error = UnreachableError(response)]
              ELSE [gen EXCEPT !.pc = "returned", !.timer = ClearTimeout(@),
                               !.result = [sessionId |-> IF Truthy(response.sessionHeader)
                                                         THEN response.sessionHeader[1] ELSE "",
                                           stream |-> "open"]]
    /\ UNCHANGED <<clr, clear, decVars, valVars, appVars, storeVars>>

CatchRejectionNoAbortTest ==
    [gen EXCEPT !.pc = "failed", !.timer = ClearTimeout(@),
                !.error = RequestFailedError]

\* the catch block for a rejection of fetch that is not a ChatError
CatchRejection ==
    [gen EXCEPT !.pc = "failed", !.timer = ClearTimeout(@),
                !.error = IF gen.aborted THEN TimedOutError ELSE RequestFailedError]

\* fetch rejects because the network failed
FetchRejects ==
    /\ gen.pc = "fetch" /\ net.state = "pending"
    /\ net' = [net EXCEPT !.state = "rejected"]
    /\ gen' = CatchRejection
    /\ UNCHANGED <<clr, clear, decVars, valVars, appVars, storeVars>>

\* fetch rejects with the AbortError of the signal
FetchAborted ==
    /\ gen.pc = "fetch" /\ net.state = "aborted"
    /\ gen' = CatchRejection
    /\ UNCHANGED <<net, clr, clear, decVars, valVars, appVars, storeVars>>

\* bytes of the body arrive; nothing in generateResponse reads the stream
BodyChunk ==
    /\ net.state = "responded" /\ net.body = "open" /\ net.chunks < MaxChunks
    /\ net' = [net EXCEPT !.chunks = @ + 1]
    /\ UNCHANGED <<gen, clr, clear, decVars, valVars, appVars, storeVars>>

\* the server ends the body
BodyCloses ==
    /\ net.state = "responded" /\ net.body = "open"
    /\ net' = [net EXCEPT !.body = "closed"]
    /\ UNCHANGED <<gen, clr, clear, decVars, valVars, appVars, storeVars>>

TransportInit == DecIdle /\ ValIdle /\ AppIdle /\ NetIdle /\ StoreIdle

TransportNext ==
    \/ \E arg \in TimeoutArgs : GenerateResponse(arg)
    \/ TimeoutElapses
    \/ \E response \in Responses : FetchResponds(response)
    \/ FetchRejects
    \/ FetchAborted
    \/ BodyChunk
    \/ BodyCloses

SpecTransport == TransportInit /\ [][TransportNext]_vars

(***************************************************************************)
(* ResponseService.clearHistory: one POST /clear with a timeout timer.     *)
(***************************************************************************)
\* the timeout argument of clearHistory is a number, 120 s when omitted
ClearTimeoutArgs == {TimeoutOmitted, TimeoutMs(0), TimeoutMs(5000), TimeoutMs(30000)}

\* the call up to its await of fetch: controller, timer, request
ClearHistoryCall(sessionId, arg) ==
    [pc |-> "fetch", sessionId |-> sessionId, timeout |-> arg,
     delay |-> TimeoutParam(arg).ms, timer |-> "armed", aborted |-> FALSE,
     signal |-> TimeoutParam(arg).ms # 0,
     state |-> "pending", elapsed |-> FALSE, status |-> 0,
     result |-> FALSE, raised |-> FALSE]

clearHistory(sessionId, arg) ==
    /\ clr.pc \in {"idle", "returned"}
    /\ clr' = ClearHistoryCall(sessionId, arg)
    /\ UNCHANGED <<gen, net, clear, decVars, valVars, appVars, storeVars>>

\* the timer's delay elapses; an armed timer runs controller.abort()
ClearTimeoutElapses ==
    /\ clr.pc # "idle" /\ ~clr.elapsed
    /\ LET fires == clr.timer = "armed"
       IN  clr' = [clr EXCEPT
                     !.elapsed = TRUE,
                     !.timer = IF fires THEN "fired" ELSE @,
                     !.aborted = fires,
                     !.state = IF fires /\ clr.signal /\ @ = "pending" THEN "aborted" ELSE @]
    /\ UNCHANGED <<gen, net, clear, decVars, valVars, appVars, storeVars>>

\* fetch resolves with a response of any status: return true, then finally
ClearResponds(status) ==
    /\ clr.pc = "fetch" /\ clr.state = "pending"
    /\ clr' = [clr EXCEPT !.pc = "returned", !.state = "responded", !.status = status,
                          !.result = TRUE, !.timer = ClearTimeout(@)]
    /\ UNCHANGED <<gen, net, clear, decVars, valVars, appVars, storeVars>>

\* fetch rejects because the network failed: catch returns false, then finally
ClearRejects ==
    /\ clr.pc = "fetch" /\ clr.state = "pending"
    /\ clr' = [clr EXCEPT !.pc = "returned", !.state = "rejected",
                          !.result = FALSE, !.timer = ClearTimeout(@)]
    /\ UNCHANGED <<gen, net, clear, decVars, valVars, appVars, storeVars>>

\* fetch rejects with the AbortError of the signal: catch returns false
ClearAborted ==
    /\ clr.pc = "fetch" /\ clr.state = "aborted"
    /\ clr' = [clr EXCEPT !.pc = "returned", !.result = FALSE, !.timer = ClearTimeout(@)]
    /\ UNCHANGED <<gen, net, clear, decVars, valVars, appVars, storeVars>>

ClearHistoryNext ==
    \/ \E sid \in SessionIds, arg \in ClearTimeoutArgs : clearHistory(sid, arg)
    \/ ClearTimeoutElapses
    \/ \E status \in Statuses : ClearResponds(status)
    \/ ClearRejects
    \/ ClearAborted

SpecClearHistory == TransportInit /\ [][ClearHistoryNext]_vars

(***************************************************************************)
(* AssistantComponent.clearChat, run while no request is in progress and   *)
(* with the input unused until it has ended.                               *)
(***************************************************************************)
ChatAtRest ==
    /\ loaded /\ ~isAwaiting
    /\ onSend.pc \in {"idle", "returned"}
    /\ req.pc \in {"idle", "done", "failed", "saveChatId"}
    /\ cons.pc \in {"idle", "done"}

\* clearChat up to its await of getChatId: the list is emptied and the
\* welcome message is added without being saved
clearChat ==
    /\ ChatAtRest /\ clear.pc \in {"idle", "done"}
    /\ messages' = <<NewMessage(WELCOME_MESSAGE, "assistant", TRUE)>>
    /\ clear' = [pc |-> "getChatId", sessionId |-> "", stored |-> sessionStore,
                 sends |-> sends, history |-> history]
    /\ UNCHANGED <<decVars, valVars, gen, net, clr, loaded, history, sessionStore, sessionTx,
                   isAwaiting, streamProgress, output, userRequest, sends, events, onSend, req, cons, storeVars>>

\* getChatId has read the session slot, after the saves created before it;
\* clearChat goes on into clearHistory(sessionId) with the default timeout
ClearChatGotId ==
    /\ clear.pc = "getChatId" /\ sessionTx = <<>>
    /\ clear' = [clear EXCEPT !.pc = "clearHistory", !.sessionId = sessionStore,
                              !.stored = sessionStore]
    /\ clr' = ClearHistoryCall(sessionStore, TimeoutOmitted)
    /\ UNCHANGED <<decVars, valVars, gen, net, appVars, storeVars>>

\* clearHistory has returned, true or false: clearChat creates the
\* transaction of clearDatabase
ClearChatClearedOnlyIfTrue ==
    /\ clear.pc = "clearHistory" /\ clr.pc = "returned"
    /\ clear' = [clear EXCEPT !.pc = IF clr.result THEN "clearDatabase" ELSE "done"]
    /\ UNCHANGED <<decVars, valVars, gen, net, clr, appVars, storeVars>>

ClearChatCleared ==
    /\ clear.pc = "clearHistory" /\ clr.pc = "returned"
    /\ clear' = [clear EXCEPT !.pc = "clearDatabase"]
    /\ UNCHANGED <<decVars, valVars, gen, net, clr, appVars, storeVars>>

\* the transaction of clearDatabase completes: both stores are empty
ClearDatabaseDone ==
    /\ clear.pc = "clearDatabase" /\ sessionTx = <<>>
    /\ history' = <<>>
    /\ sessionStore' = ""
    /\ clear' = [clear EXCEPT !.pc = "done"]
    /\ UNCHANGED <<decVars, valVars, gen, net, clr, loaded, messages, sessionTx,
                   isAwaiting, streamProgress, output, userRequest, sends, events, onSend, req, cons, storeVars>>

ClearChatRunning == clear.pc \notin {"idle", "done"}

\* onSend while no clearChat call is running
OnSendAfterClear(userInput) == ~ClearChatRunning /\ OnSend(userInput)

ClearChatNext ==
    \/ LoadChat
    \/ \E userInput \in Inputs : OnSendAfterClear(userInput)
    \/ OnSendSaved
    \/ GetChatId
    \/ \E sid \in SessionIds : GenerateOk(sid)
    \/ SaveChatIdDone
    \/ \E e \in ChatErrors : GenerateFails(e)
    \/ CatchSaved
    \/ \E event \in {e \in OutputEvents : e.status = "completed"} : PipeOutput(event)
    \/ StreamCloses
    \/ FinalSaved
    \/ clearChat
    \/ ClearChatGotId
    \/ ClearTimeoutElapses
    \/ \E status \in Statuses : ClearResponds(status)
    \/ ClearRejects
    \/ ClearAborted
    \/ ClearChatCleared
    \/ ClearDatabaseDone

SpecClearChat == Init /\ [][ClearChatNext]_vars

(***************************************************************************)
(* StorageService over IndexedDB.  Every operation awaits openDatabase,    *)
(* creates one transaction and awaits it; IndexedDB runs the transactions  *)
(* whose scopes overlap, one of them writing, in the order of creation.    *)
(***************************************************************************)
MaxOps == 3    \* store operations called in a run

History == "chat_history"
Session == "chat_session"

\* a database left by an earlier page load, with both object stores, empty
EmptyDatabase == [NoDatabase EXCEPT !.version = 1, !.schema = {History, Session}]

StoreReads == {"getChatId", "getChatMessages"}

\* the arguments the operations are called with
StoreIds == {"s1", "s2"}
StoreMessages == {Msg("user", Render(<<"q1">>), TRUE), Msg("assistant", Render(<<"Hi">>), TRUE)}
StoreCalls ==
    [fn : {"saveChatId"}, sid : StoreIds, msg : {NoMessage}]
    \cup [fn : {"saveChatMessage"}, sid : {""}, msg : StoreMessages]
    \cup [fn : {"getChatId", "getChatMessages", "clearDatabase"}, sid : {""}, msg : {NoMessage}]

\* database.transaction(scope, mode) of each operation
Scope(fn) ==
    IF fn \in {"saveChatId", "getChatId"} THEN {Session}
    ELSE IF fn \in {"saveChatMessage", "getChatMessages"} THEN {History}
    ELSE {History, Session}
Readwrite(fn) == fn \notin StoreReads

\* the value add() stores under the generated key: keyPath "id"
StoredMessage(key, message) ==
    [id |-> key, turn |-> message.turn, content |-> message.content, final |-> message.final]

\* an operation up to its await of openDatabase, which issues the open
\* request unless the promise is cached
StoreCallReopening(call) ==
    /\ Len(ops) < MaxOps
    /\ ops' = Append(ops, [fn |-> call.fn, sid |-> call.sid, msg |-> call.msg, pc |-> "open",
                           raised |-> FALSE, id |-> "", msgs |-> <<>>, key |-> 0, stamp |-> 0])
    /\ database' = IF database \in {"unset", "rejected"} THEN "pending" ELSE database
    /\ idb' = IF database \in {"unset", "rejected"} THEN [idb EXCEPT !.opens = @ + 1] ELSE idb
    /\ UNCHANGED <<decVars, valVars, appVars, netVars>>

StoreCall(call) ==
    /\ Len(ops) < MaxOps
    /\ ops' = Append(ops, [fn |-> call.fn, sid |-> call.sid, msg |-> call.msg, pc |-> "open",
                           raised |-> FALSE, id |-> "", msgs |-> <<>>, key |-> 0, stamp |-> 0])
    /\ database' = IF database = "unset" THEN "pending" ELSE database
    /\ idb' = IF database = "unset" THEN [idb EXCEPT !.opens = @ + 1] ELSE idb
    /\ UNCHANGED <<decVars, valVars, appVars, netVars>>

\* the stores onupgradeneeded creates: each one the database does not have
Upgrade(schema) ==
    (IF History \in schema THEN <<>> ELSE <<History>>)
    \o (IF Session \in schema THEN <<>> ELSE <<Session>>)

\* the open request succeeds, after onupgradeneeded when the database is new
OpenSucceeds ==
    /\ database = "pending"
    /\ database' = "resolved"
    /\ idb' = IF idb.version = 0
              THEN [idb EXCEPT !.version = 1,
                               !.created = @ \o Upgrade(idb.schema),
                               !.schema = @ \cup {Upgrade(idb.schema)[i] : i \in DOMAIN Upgrade(idb.schema)}]
              ELSE idb
    /\ UNCHANGED <<ops, decVars, valVars, appVars, netVars>>

\* the open request fails: the cached promise is rejected
OpenFails ==
    /\ database = "pending"
    /\ database' = "rejected"
    /\ UNCHANGED <<idb, ops, decVars, valVars, appVars, netVars>>

\* the operations awaiting the connection go on in the order of their calls
NextToContinue(i) ==
    /\ i \in DOMAIN ops /\ ops[i].pc = "open"
    /\ \A j \in 1..(i - 1) : ops[j].pc # "open"

\* the operation returns without a transaction: a read returns its default
\* from the catch block, a write raises
SettleSwallowingWrites(op) ==
    IF op.fn \in StoreReads THEN [op EXCEPT !.pc = "done", !.id = "", !.msgs = <<>>]
    ELSE [op EXCEPT !.pc = "done"]

Settle(op) ==
    IF op.fn \in StoreReads THEN [op EXCEPT !.pc = "done", !.id = "", !.msgs = <<>>]
    ELSE [op EXCEPT !.pc = "done", !.raised = TRUE]

StoreContinueSharingTransaction(i) ==
    /\ NextToContinue(i) /\ database = "resolved"
    /\ ops' = [ops EXCEPT ![i].pc = "tx"]
    /\ idb' = IF \E k \in DOMAIN idb.txs : Scope(ops[idb.txs[k]].fn) = Scope(ops[i].fn)
              THEN idb
              ELSE [idb EXCEPT !.txs = Append(@, i)]
    /\ UNCHANGED <<database, decVars, valVars, appVars, netVars>>

\* after openDatabase: the transaction is created and its requests placed
StoreContinue(i) ==
    /\ NextToContinue(i) /\ database = "resolved"
    /\ ops' = [ops EXCEPT ![i].pc = "tx"]
    /\ idb' = [idb EXCEPT !.txs = Append(@, i)]
    /\ UNCHANGED <<database, decVars, valVars, appVars, netVars>>

\* after openDatabase rejected
StoreContinueRejected(i) ==
    /\ NextToContinue(i) /\ database = "rejected"
    /\ ops' = [ops EXCEPT ![i] = Settle(@)]
    /\ UNCHANGED <<database, idb, decVars, valVars, appVars, netVars>>

\* transaction i has no live transaction created before it that it must
\* wait for
Conflicts(f, g) == Scope(f) \cap Scope(g) # {} /\ (Readwrite(f) \/ Readwrite(g))

Runnable(k) ==
    /\ k \in DOMAIN idb.txs
    /\ \A h \in 1..(k - 1) : ~Conflicts(ops[idb.txs[h]].fn, ops[idb.txs[k]].fn)

Without(seq, k) == [h \in 1..(Len(seq) - 1) |-> IF h < k THEN seq[h] ELSE seq[h + 1]]

\* the transaction fails or aborts: nothing it did is kept
TxFailsKeepingHistoryClear(k) ==
    /\ Runnable(k)
    /\ LET i == idb.txs[k]
       IN  /\ ops' = [ops EXCEPT ![i] = Settle(@)]
           /\ idb' = [idb EXCEPT !.txs = Without(@, k),
                                 !.log = IF ops[i].fn = "clearDatabase" THEN <<>> ELSE @]
    /\ UNCHANGED <<database, decVars, valVars, appVars, netVars>>

TxFails(k) ==
    /\ Runnable(k)
    /\ LET i == idb.txs[k]
       IN  /\ ops' = [ops EXCEPT ![i] = Settle(@)]
           /\ idb' = [idb EXCEPT !.txs = Without(@, k)]
    /\ UNCHANGED <<database, decVars, valVars, appVars, netVars>>

TxCompletesResettingKeys(k) ==
    /\ Runnable(k)
    /\ LET i == idb.txs[k]
           fn == ops[i].fn
           key == idb.keygen + 1
           done == [ops[i] EXCEPT !.pc = "done", !.stamp = idb.clock + 1]
       IN  /\ ops' = [ops EXCEPT ![i] =
                        IF fn = "getChatId"
                        THEN [done EXCEPT !.id = IF idb.session = <<>> THEN "" ELSE idb.session[1]]
                        ELSE IF fn = "getChatMessages" THEN [done EXCEPT !.msgs = idb.log]
                        ELSE IF fn = "saveChatMessage" THEN [done EXCEPT !.key = key]
                        ELSE done]
           /\ idb' = [idb EXCEPT
                        !.txs = Without(@, k),
                        !.clock = @ + 1,
                        !.session = IF fn = "saveChatId" THEN <<ops[i].sid>>
                                    ELSE IF fn = "clearDatabase" THEN <<>> ELSE @,
                        !.keygen = IF fn = "saveChatMessage" THEN key
                                   ELSE IF fn = "clearDatabase" THEN 0 ELSE @,
                        !.log = IF fn = "saveChatMessage" THEN Append(@, StoredMessage(key, ops[i].msg))
                                ELSE IF fn = "clearDatabase" THEN <<>> ELSE @]
    /\ UNCHANGED <<database, decVars, valVars, appVars, netVars>>

TxCompletesClearingLogOnly(k) ==
    /\ Runnable(k)
    /\ LET i == idb.txs[k]
           fn == ops[i].fn
           key == idb.keygen + 1
           done == [ops[i] EXCEPT !.pc = "done", !.stamp = idb.clock + 1]
       IN  /\ ops' = [ops EXCEPT ![i] =
                        IF fn = "getChatId"
                        THEN [done EXCEPT !.id = IF idb.session = <<>> THEN "" ELSE idb.session[1]]
                        ELSE IF fn = "getChatMessages" THEN [done EXCEPT !.msgs = idb.log]
                        ELSE IF fn = "saveChatMessage" THEN [done EXCEPT !.key = key]
                        ELSE done]
           /\ idb' = [idb EXCEPT
                        !.txs = Without(@, k),
                        !.clock = @ + 1,
                        !.session = IF fn = "saveChatId" THEN <<ops[i].sid>>
                                    ELSE @,
                        !.keygen = IF fn = "saveChatMessage" THEN key ELSE @,
                        !.log = IF fn = "saveChatMessage" THEN Append(@, StoredMessage(key, ops[i].msg))
                                ELSE IF fn = "clearDatabase" THEN <<>> ELSE @]
    /\ UNCHANGED <<database, decVars, valVars, appVars, netVars>>

TxCompletesKeepingFirstId(k) ==
    /\ Runnable(k)
    /\ LET i == idb.txs[k]
           fn == ops[i].fn
           key == idb.keygen + 1
           done == [ops[i] EXCEPT !.pc = "done", !.stamp = idb.clock + 1]
       IN  /\ ops' = [ops EXCEPT ![i] =
                        IF fn = "getChatId"
                        THEN [done EXCEPT !.id = IF idb.session = <<>> THEN "" ELSE idb.session[1]]
                        ELSE IF fn = "getChatMessages" THEN [done EXCEPT !.msgs = idb.log]
                        ELSE IF fn = "saveChatMessage" THEN [done EXCEPT !.key = key]
                        ELSE done]
           /\ idb' = [idb EXCEPT
                        !.txs = Without(@, k),
                        !.clock = @ + 1,
                        !.session = IF fn = "saveChatId" THEN (IF @ = <<>> THEN <<ops[i].sid>> ELSE @)
                                    ELSE IF fn = "clearDatabase" THEN <<>> ELSE @,
                        !.keygen = IF fn = "saveChatMessage" THEN key ELSE @,
                        !.log = IF fn = "saveChatMessage" THEN Append(@, StoredMessage(key, ops[i].msg))
                                ELSE IF fn = "clearDatabase" THEN <<>> ELSE @]
    /\ UNCHANGED <<database, decVars, valVars, appVars, netVars>>

\* the requests of the transaction run and it completes
TxCompletes(k) ==
    /\ Runnable(k)
    /\ LET i == idb.txs[k]
           fn == ops[i].fn
           key == idb.keygen + 1
           done == [ops[i] EXCEPT !.pc = "done", !.stamp = idb.clock + 1]
       IN  /\ ops' = [ops EXCEPT ![i] =
                        IF fn = "getChatId"
                        THEN [done EXCEPT !.id = IF idb.session = <<>> THEN "" ELSE idb.session[1]]
                        ELSE IF fn = "getChatMessages" THEN [done EXCEPT !.msgs = idb.log]
                        ELSE IF fn = "saveChatMessage" THEN [done EXCEPT !.key = key]
                        ELSE done]
           /\ idb' = [idb EXCEPT
                        !.txs = Without(@, k),
                        !.clock = @ + 1,
                        !.session = IF fn = "saveChatId" THEN <<ops[i].sid>>
                                    ELSE IF fn = "clearDatabase" THEN <<>> ELSE @,
                        !.keygen = IF fn = "saveChatMessage" THEN key ELSE @,
                        !.log = IF fn = "saveChatMessage" THEN Append(@, StoredMessage(key, ops[i].msg))
                                ELSE IF fn = "clearDatabase" THEN <<>> ELSE @]
    /\ UNCHANGED <<database, decVars, valVars, appVars, netVars>>

StoreInit ==
    /\ DecIdle /\ ValIdle /\ AppIdle /\ NetIdle
    /\ database = "unset" /\ ops = <<>>
    /\ idb \in {NoDatabase, EmptyDatabase}

StoreNext ==
    \/ \E call \in StoreCalls : StoreCall(call)
    \/ OpenSucceeds
    \/ OpenFails
    \/ \E i \in 1..MaxOps : StoreContinue(i)
    \/ \E i \in 1..MaxOps : StoreContinueRejected(i)
    \/ \E k \in 1..MaxOps : TxCompletes(k)
    \/ \E k \in 1..MaxOps : TxFails(k)

SpecStore == StoreInit /\ [][StoreNext]_vars

(***************************************************************************)
(* Claims about generateResponse                                           *)
(***************************************************************************)
\* the timer's delay elapsed while fetch was still waiting for the headers
ExpiredBeforeHeaders == gen.pc # "idle" /\ net.elapsed = "pending"

\* C17: the timer is armed with the caller's duration, 120 s when none is
\* given; for every timeout value, null included, once that duration has
\* elapsed before the headers arrived the request is aborted through the
\* signal and the call fails with the timed-out error, never otherwise.
\* Violated: for null (and 0) the fetch is given no signal, so the timer
\* fires into a controller nobody listens to and the request stays in flight.
C17_ExpiryAbortsRequest ==
    /\ gen.pc # "idle" =>
          gen.delay = (IF gen.timeout.t = "number" THEN gen.timeout.ms ELSE 120000)
    /\ ExpiredBeforeHeaders =>
          /\ net.state = "aborted"
          /\ gen.pc \in {"fetch", "failed"}
          /\ gen.pc = "failed" =>
                gen.error = [message |-> "Sorry, the request timed out. Please try again."]

\* the part of C17 the code does keep: the delay, and the abort for every
\* timeout value that is a non-zero number or omitted
C17_ExpiryAbortsWhenSignalled ==
    /\ gen.pc # "idle" =>
          gen.delay = (IF gen.timeout.t = "number" THEN gen.timeout.ms ELSE 120000)
    /\ (ExpiredBeforeHeaders /\ gen.timeout \notin {TimeoutNull, TimeoutMs(0)}) =>
          /\ net.state = "aborted"
          /\ gen.pc \in {"fetch", "failed"}
          /\ gen.pc = "failed" =>
                gen.error = [message |-> "Sorry, the request timed out. Please try again."]

\* the timer's delay elapsed after the headers, while the body was streamed
ExpiredDuringBody == gen.pc # "idle" /\ net.elapsed = "body"

\* C18: once the timeout has expired while the response body was still
\* being streamed, the network operation is aborted: the body is no longer
\* an open stream, so the chain reading it ends.
\* Violated: clearTimeout runs as soon as fetch has resolved with the
\* headers, so no timer is left to fire while the body is streamed.
C18_ExpiryDuringBodyAborts ==
    ExpiredDuringBody => net.body = "errored" /\ gen.aborted

\* what the code does instead: after the headers the timer is never armed,
\* and the body stream is never ended by the controller
C18_NoTimerAfterHeaders ==
    net.state = "responded" => gen.timer # "armed" /\ net.body # "errored"

\* fetch has resolved with this response and the call has ended
Responded == gen.pc \in {"returned", "failed"} /\ net.state = "responded"

\* C19: when the response has status 429 the call fails with the rate-limit
\* error carrying status 429 and returns no stream; the message holds the
\* value of the RateLimit-Reset header when the server sent a non-empty one
\* and the wait hint "a moment" otherwise.
C19_RateLimited ==
    (Responded /\ net.response.status = 429) =>
        /\ gen.pc = "failed" /\ gen.result = NoResult
        /\ gen.error.status = 429
        /\ gen.error.message =
              (IF net.response.resetHeader \in {<<>>, <<"">>}
               THEN "Sorry, you've sent too many requests too quickly. Please wait a moment to try again."
               ELSE "Sorry, you've sent too many requests too quickly. Please wait "
                    \o net.response.resetHeader[1] \o "s to try again.")

\* a 429 with a reset value has been answered, and one without
C19_Witness ==
    /\ Responded /\ net.response.status = 429
    /\ net.response.resetHeader = <<"30">>
    /\ gen.error.message =
          "Sorry, you've sent too many requests too quickly. Please wait 30s to try again."

C19_WitnessNoReset ==
    /\ Responded /\ net.response.status = 429
    /\ net.response.resetHeader = <<>>
    /\ gen.pc = "failed"

\* C20: a response other than 429 that is not 2xx, or that has no body,
\* makes the call fail with the connectivity error carrying the status; the
\* call returns a stream only for a 2xx response with a body.
C20_Unreachable ==
    /\ (Responded /\ net.response.status # 429
          /\ (net.response.status < 200 \/ net.response.status > 299 \/ ~net.response.body)) =>
            /\ gen.pc = "failed" /\ gen.result = NoResult
            /\ gen.error = [message |-> "Sorry, the server could not be reached.",
                            status |-> net.response.status]
    /\ gen.pc = "returned" =>
            /\ net.state = "responded"
            /\ net.response.status >= 200 /\ net.response.status <= 299
            /\ net.response.body
            /\ gen.result # NoResult /\ gen.error = NoError

\* a 2xx response without a body has failed the call, and a 500 with one
C20_Witness ==
    /\ Responded /\ net.response.status = 204 /\ ~net.response.body
    /\ gen.pc = "failed"

C20_WitnessNon2xx ==
    /\ Responded /\ net.response.status = 500 /\ net.response.body
    /\ gen.pc = "failed"

C20_WitnessStream ==
    /\ Responded /\ net.response.status = 200 /\ gen.pc = "returned"

\* C21: for a 2xx response with a body the call has returned in the step in
\* which the headers arrived, whatever the state of the body; the sessionId
\* it returns is the Session-ID header, "" when the header is absent, and
\* nothing was read from the stream it returns.
C21_ReturnsAtHeaders ==
    (Responded /\ net.response.body
        /\ net.response.status >= 200 /\ net.response.status <= 299) =>
            /\ gen.pc = "returned"
            /\ gen.result.sessionId = (IF net.response.sessionHeader = <<>> THEN ""
                                       ELSE net.response.sessionHeader[1])
            /\ gen.result.stream = "open"
            /\ net.read = 0

\* the call has returned the session id of the header while no byte of the
\* body has arrived
C21_Witness ==
    /\ gen.pc = "returned" /\ gen.result.sessionId = "s1"
    /\ net.body = "open" /\ net.chunks = 0

C21_WitnessNoHeader ==
    /\ gen.pc = "returned" /\ net.response.sessionHeader = <<>>
    /\ gen.result.sessionId = "" /\ net.body = "open"

(***************************************************************************)
(* Claims about clearHistory                                               *)
(***************************************************************************)
\* C22: clearHistory never raises; it returns false when the clear request
\* failed -- fetch rejected, the timeout aborted it, or the server answered
\* with a status that is not 2xx -- and true only when the request succeeded.
\* Violated: the response is never looked at, so a 500 returns true.
C22_TrueOnlyOnSuccess ==
    clr.pc = "returned" =>
        /\ ~clr.raised
        /\ clr.result <=> (clr.state = "responded" /\ clr.status >= 200 /\ clr.status <= 299)

\* the part of C22 the code does keep: no raise, false whenever fetch
\* rejected or was aborted by the timer, true whenever fetch resolved
C22_FalseOnRejection ==
    clr.pc = "returned" =>
        /\ ~clr.raised
        /\ clr.result <=> clr.state = "responded"
        /\ clr.timer # "armed"

(***************************************************************************)
(* Claims about clearChat                                                  *)
(***************************************************************************)
\* the welcome message as clearChat adds it
WelcomeOnly == <<Msg("assistant", Render(WELCOME_MESSAGE), TRUE)>>

\* nothing was submitted since the clearChat call began
NoSendSinceClear == sends = clear.sends

C23_WitnessTrue ==
    /\ clear.pc = "done" /\ NoSendSinceClear
    /\ clear.history # <<>> /\ clear.stored = "s1"
    /\ clr.result

(***************************************************************************)
(* Claims about the StorageService                                         *)
(***************************************************************************)
\* the operations whose transaction completed, by their place in the order
\* of completion
Completed == {i \in DOMAIN ops : ops[i].stamp > 0}
OpAt(t) == ops[CHOOSE i \in Completed : ops[i].stamp = t]

\* the time of the last clearDatabase completed at or before time t, or 0
LastClearUpTo(t) ==
    LET clears == {u \in 1..t : OpAt(u).fn = "clearDatabase"}
    IN  IF clears = {} THEN 0 ELSE CHOOSE u \in clears : \A v \in clears : v <= u

\* the saveChatMessage calls completed after time a and up to time b, in
\* the order of completion
RECURSIVE AppendedBetween(_, _)
AppendedBetween(a, b) ==
    IF b <= a THEN <<>>
    ELSE AppendedBetween(a, b - 1)
         \o (IF OpAt(b).fn = "saveChatMessage" THEN <<OpAt(b)>> ELSE <<>>)

\* the saves a read at time t has to return
AppendedAt(t) == AppendedBetween(LastClearUpTo(t), t)

\* stored records are the saved messages, one for one and in order
SameMessages(records, saves) ==
    /\ Len(records) = Len(saves)
    /\ \A n \in DOMAIN records :
          /\ records[n].turn = saves[n].msg.turn
          /\ records[n].content = saves[n].msg.content
          /\ records[n].id = saves[n].key

\* C24: the message log, and what every completed getChatMessages returned,
\* is exactly the messages of the saveChatMessage calls completed since the
\* last clearDatabase, turn and content unchanged, in the order they were
\* appended, which is the order of the calls; the keys given to the saves
\* grow strictly in that order and none is used twice, also across a
\* clearDatabase.
C24_RoundTrip ==
    /\ SameMessages(idb.log, AppendedAt(idb.clock))
    /\ \A i \in Completed :
          ops[i].fn = "getChatMessages" =>
              ~ops[i].raised /\ SameMessages(ops[i].msgs, AppendedAt(ops[i].stamp - 1))
    /\ \A i, j \in Completed :
          (ops[i].fn = "saveChatMessage" /\ ops[j].fn = "saveChatMessage" /\ i < j) =>
              /\ ops[i].stamp < ops[j].stamp
              /\ 0 < ops[i].key /\ ops[i].key < ops[j].key

\* a read has returned two different messages in the order of their saves
C24_Witness ==
    \E i \in Completed :
        /\ ops[i].fn = "getChatMessages" /\ Len(ops[i].msgs) = 2
        /\ ops[i].msgs[1].turn = ops[1].msg.turn /\ ops[i].msgs[2].turn = ops[2].msg.turn
        /\ ops[1].msg # ops[2].msg

\* a message saved after a clearDatabase got a key above the cleared one
C24_WitnessAfterClear ==
    /\ Len(ops) = 3 /\ ops[2].fn = "clearDatabase" /\ ops[2].stamp = 2
    /\ Len(idb.log) = 1 /\ idb.log[1].id = 2

\* the operation completed last, and the one completed just before time t
LastCompleted(fn) == idb.clock > 0 /\ OpAt(idb.clock).fn = fn
JustAfterClear(t) == t > 1 /\ OpAt(t - 1).fn = "clearDatabase"

\* C25: whenever the operation completed last is a clearDatabase, the first
\* or the second in a row, the store is in the same state: the message log
\* is empty and no session id is stored; a getChatId that runs next returns
\* "" and a getChatMessages that runs next returns the empty list.
C25_ClearIdempotent ==
    /\ LastCompleted("clearDatabase") => idb.log = <<>> /\ idb.session = <<>>
    /\ \A i \in Completed :
          JustAfterClear(ops[i].stamp) =>
              /\ ops[i].fn = "getChatId" => ops[i].id = ""
              /\ ops[i].fn = "getChatMessages" => ops[i].msgs = <<>>
              /\ ops[i].fn = "clearDatabase" =>
                    (ops[i].stamp = idb.clock => idb.log = <<>> /\ idb.session = <<>>)

\* two clearDatabase calls completed in a row after a message and a session
\* id were stored
C25_Witness ==
    /\ Len(ops) = 3 /\ ops[1].fn = "saveChatId"
    /\ ops[2].fn = "clearDatabase" /\ ops[2].stamp = 2
    /\ ops[3].fn = "clearDatabase" /\ ops[3].stamp = 3

C25_WitnessRead ==
    /\ Len(ops) = 3 /\ ops[1].fn = "saveChatId" /\ ops[1].stamp = 1
    /\ ops[2].fn = "clearDatabase" /\ ops[2].stamp = 2
    /\ ops[3].fn = "getChatId" /\ ops[3].stamp = 3

\* operation i returns to its caller in this step
Returns(i) == ops[i].pc # "done" /\ ops'[i].pc = "done"

\* C26: clearDatabase uses one transaction over both object stores, and in
\* the step in which it returns either it reports success and both the
\* message log and the session slot are empty, or it raises and both are as
\* they were: never one cleared and the other not.
C26_ClearAtomic ==
    [][\A i \in DOMAIN ops :
          (ops[i].fn = "clearDatabase" /\ Returns(i)) =>
              /\ Scope(ops[i].fn) = {History, Session}
              /\ Len(SelectSeq(idb.txs, LAMBDA t : t = i)) <= 1
              /\ IF ops'[i].raised
                 THEN idb'.log = idb.log /\ idb'.session = idb.session
                 ELSE idb'.log = <<>> /\ idb'.session = <<>>]_vars

\* a clearDatabase whose transaction failed has raised, and the message and
\* the session id stored before it are both still there
C26_Witness ==
    /\ database = "resolved" /\ Len(ops) = 3
    /\ ops[1].fn = "saveChatMessage" /\ ops[1].stamp = 1
    /\ ops[2].fn = "saveChatId" /\ ops[2].stamp = 2
    /\ ops[3].fn = "clearDatabase" /\ ops[3].pc = "done" /\ ops[3].raised
    /\ idb.log # <<>> /\ idb.session # <<>>

\* the id of the last saveChatId completed after the last clearDatabase and
\* up to time t, or "" when there is none
RECURSIVE SavedIdAt(_)
SavedIdAt(t) ==
    IF t = 0 \/ OpAt(t).fn = "clearDatabase" THEN ""
    ELSE IF OpAt(t).fn = "saveChatId" THEN OpAt(t).sid
    ELSE SavedIdAt(t - 1)

\* C27: the session slot holds at most one value; it is unset when no
\* saveChatId completed since the start or since the last clearDatabase, and
\* otherwise holds the id of the most recent completed saveChatId, whole;
\* every completed getChatId returned "" in the first case and that id in
\* the second.
C27_OneSessionId ==
    /\ Len(idb.session) <= 1
    /\ idb.session = (IF SavedIdAt(idb.clock) = "" THEN <<>> ELSE <<SavedIdAt(idb.clock)>>)
    /\ \A i \in Completed :
          ops[i].fn = "getChatId" =>
              ~ops[i].raised /\ ops[i].id = SavedIdAt(ops[i].stamp - 1)

\* a getChatId has returned the second of two ids saved before it
C27_Witness ==
    /\ Len(ops) = 3
    /\ ops[1].fn = "saveChatId" /\ ops[1].sid = "s1" /\ ops[1].stamp = 1
    /\ ops[2].fn = "saveChatId" /\ ops[2].sid = "s2" /\ ops[2].stamp = 2
    /\ ops[3].fn = "getChatId" /\ ops[3].stamp = 3 /\ ops[3].id = "s2"

C27_WitnessUnset ==
    /\ ops # <<>> /\ ops[1].fn = "getChatId" /\ ops[1].stamp = 1 /\ ops[1].id = ""

\* the operations that have returned to their caller
Returned == {i \in DOMAIN ops : ops[i].pc = "done"}

\* C28: a read never raises, and when the database could not be opened or
\* its transaction failed, getChatId has returned "" and getChatMessages the
\* empty list; a write has raised exactly when the database could not be
\* opened or its transaction failed, and has returned without raising only
\* after its transaction completed.
C28_SoftReadsHardWrites ==
    \A i \in Returned :
        IF ops[i].fn \in StoreReads
        THEN /\ ~ops[i].raised
             /\ ops[i].stamp = 0 => ops[i].id = "" /\ ops[i].msgs = <<>>
        ELSE /\ ops[i].raised <=> ops[i].stamp = 0
             /\ ~ops[i].raised => (ops[i].stamp <= idb.clock /\ \A k \in DOMAIN idb.txs : idb.txs[k] # i)

\* with an id stored, a getChatId whose transaction failed has returned ""
\* and a saveChatId whose transaction failed has raised
C28_Witness ==
    /\ database = "resolved" /\ Len(ops) = 3
    /\ ops[1].fn = "saveChatId" /\ ops[1].stamp = 1
    /\ ops[2].fn = "getChatId" /\ ops[2].pc = "done" /\ ops[2].stamp = 0 /\ ops[2].id = ""
    /\ ops[3].fn = "saveChatId" /\ ops[3].pc = "done" /\ ops[3].raised
    /\ idb.session = <<ops[1].sid>>

\* the database could not be opened: the read returned its default, the
\* write raised
C28_WitnessNoDatabase ==
    /\ database = "rejected" /\ Len(ops) >= 2
    /\ ops[1].fn = "getChatMessages" /\ ops[1].pc = "done" /\ ~ops[1].raised
    /\ ops[2].fn = "saveChatMessage" /\ ops[2].pc = "done" /\ ops[2].raised

\* how often createObjectStore was called for a store
CreatedTimes(store) == Len(SelectSeq(idb.created, LAMBDA c : c = store))

\* C29: no open request is issued before the first store operation, and
\* never more than one, however many operations are called and also when
\* they are called before the open has finished; every transaction is
\* created on that one connection; and the upgrade creates each of the two
\* object stores at most once, and not at all in a database that has them.
C29_OneLazyOpen ==
    /\ ops = <<>> => idb.opens = 0 /\ database = "unset"
    /\ ops # <<>> => idb.opens = 1 /\ database # "unset"
    /\ idb.txs # <<>> => database = "resolved"
    /\ \A store \in {History, Session} : CreatedTimes(store) <= 1
    /\ database = "resolved" =>
          /\ idb.schema = {History, Session}
          /\ idb.created \in {<<>>, <<History, Session>>}
    /\ database \in {"unset", "pending"} => idb.created = <<>>

\* three operations were called before the open finished and share the one
\* open request
C29_Witness ==
    /\ database = "pending" /\ idb.opens = 1
    /\ Len(ops) = 3 /\ \A i \in DOMAIN ops : ops[i].pc = "open"

\* all three got their transaction on the connection of that request, in a
\* database the upgrade has just created
C29_WitnessShared ==
    /\ database = "resolved" /\ idb.opens = 1 /\ Len(idb.txs) = 3
    /\ idb.created = <<History, Session>>

(***************************************************************************)
(* Claims about what the consumer persists                                 *)
(***************************************************************************)
\* the stream of the running consumeStream has not terminated
Streaming == cons.pc \in {"read", "saveStatus"}

\* the records of the running consumeStream in the store that are an answer:
\* final ones, or ones with the text rendered so far
AnswerRecords ==
    {n \in DOMAIN ConsSaved :
        /\ ConsSaved[n].turn = "assistant"
        /\ ConsSaved[n].final \/ (cons.text # <<>> /\ ConsSaved[n].content = Render(cons.text))}

\* C30: a record of the store is never changed or removed once appended;
\* while the stream of a request has not terminated the store has no record
\* of its answer, only status entries; the one final record is appended
\* after the stream has terminated, and there is exactly one when
\* consumeStream has returned.
C30_AnswerSavedOnce ==
    [][/\ Len(history') >= Len(history)
       /\ SubSeq(history', 1, Len(history)) = history
       /\ Streaming' => AnswerRecords' = {}
       /\ cons'.pc = "saveFinal" => AnswerRecords' = {}
       /\ ConsumeReturned' =>
             /\ Cardinality({n \in DOMAIN ConsSaved' : ConsSaved'[n].final}) = 1
             /\ AnswerRecords' = {Len(ConsSaved')}]_vars

\* output is being consumed, a status entry of the request is already in
\* the store, and the text received so far is not
C30_Witness ==
    /\ cons.pc = "read" /\ cons.text # <<>>
    /\ ConsSaved # <<>> /\ AnswerRecords = {}

C30_WitnessSaved ==
    /\ cons.pc = "done" /\ cons.ended = "closed" /\ cons.text # <<>>
    /\ Len(ConsSaved) = 2 /\ ConsSaved[2] = Msg("assistant", Render(cons.text), TRUE)

(***************************************************************************)
(* SpecDecoderFaults: the decoder on a body whose valid lines are followed *)
(* by a segment that is not JSON, or by a value the body ends inside.      *)
(***************************************************************************)
BadSegments ==
    { <<"}">>,                          \* }
      <<"{", "\"", "a", "\"", "}">>,    \* {"a"}
      <<"{", "\"", "a", "\"", ":">> }   \* {"a":   and the body ends

DecFaultsInit ==
    /\ lines \in LineSeqs
    /\ trailing = TRUE
    /\ doc \in {Body(lines, "\n", TRUE) \o bad : bad \in BadSegments}
    /\ pos = 0
    /\ parser = NewJSONParser("\n")
    /\ parserOut = <<>>
    /\ decoded = <<>>
    /\ filterLog = <<>>
    /\ decState = "open"
    /\ midSplit = FALSE
    /\ multiChunk = FALSE
    /\ ValIdle
    /\ AppIdle
    /\ NetIdle
    /\ StoreIdle

SpecDecoderFaults == DecFaultsInit /\ [][DecNext]_vars

IsPrefix(s, t) == Len(s) <= Len(t) /\ s = SubSeq(t, 1, Len(s))

\* C31: when the body holds a segment that is not valid JSON, every root
\* object of the valid complete lines before it has been delivered, in
\* order, by the time the decoder's output has ended with the error.
C31_ValuesBeforeErrorDelivered ==
    (DecoderDone /\ decState = "errored") =>
        decoded = SelectSeq(lines, IsRootObject)

\* what the decoder does keep: the values delivered are, in order, root
\* objects of the valid lines, none twice and none out of place, and the
\* output of a body with a bad segment always ends with the error
C31_NoReorderOnError ==
    /\ IsPrefix(decoded, SelectSeq(lines, IsRootObject))
    /\ DecoderDone => decState = "errored"

\* a line alone in its chunk is delivered before the error
C31_WitnessDelivered ==
    /\ DecoderDone /\ decState = "errored"
    /\ Len(decoded) = 2 /\ decoded = SelectSeq(lines, IsRootObject)

(***************************************************************************)
(* Concurrent store operations                                             *)
(***************************************************************************)
\* the transactions operation i has in the database
TransactionsOf(i) == {k \in DOMAIN idb.txs : idb.txs[k] = i}

\* the records of the message log stored under key
RecordsWithKey(key) == {n \in DOMAIN idb.log : idb.log[n].id = key}

\* every saveChatMessage completed since the last clearDatabase has its
\* message in the log once
LoggedOnce ==
    \A i \in Completed :
        (ops[i].fn = "saveChatMessage" /\ LastClearUpTo(idb.clock) < ops[i].stamp) =>
            /\ Cardinality(RecordsWithKey(ops[i].key)) = 1
            /\ \A n \in RecordsWithKey(ops[i].key) :
                  idb.log[n] = StoredMessage(ops[i].key, ops[i].msg)

\* C32: store operations in flight together do not disturb each other.
\* Each operation has one transaction of its own, with the scope of its
\* function, from the moment it has the connection until it returns; every
\* saveChatMessage that completes appends exactly its own message and
\* leaves the session slot alone, so that two of them running together are
\* both in the log once each; every saveChatId that completes sets the
\* session slot and leaves the message log and its keys alone.
C32_ConcurrentCallsIsolated ==
    [][/\ \A i \in DOMAIN ops' :
             Cardinality(TransactionsOf(i)') = IF ops'[i].pc = "tx" THEN 1 ELSE 0
       /\ \A i \in DOMAIN ops :
             (Returns(i) /\ ~ops'[i].raised /\ ops[i].fn = "saveChatMessage") =>
                 /\ RecordsWithKey(ops'[i].key) = {}
                 /\ idb'.log = Append(idb.log, StoredMessage(ops'[i].key, ops[i].msg))
                 /\ idb'.session = idb.session
       /\ \A i \in DOMAIN ops :
             (Returns(i) /\ ~ops'[i].raised /\ ops[i].fn = "saveChatId") =>
                 /\ idb'.session = <<ops[i].sid>>
                 /\ idb'.log = idb.log /\ idb'.keygen = idb.keygen
       /\ LoggedOnce']_vars

\* three calls made before any of them completed: the saveChatId, called
\* last, completed first, then the two saveChatMessage; both messages are
\* in the log, once each, and the session id is stored
C32_Witness ==
    /\ Len(ops) = 3
    /\ ops[1].fn = "saveChatMessage" /\ ops[2].fn = "saveChatMessage" /\ ops[3].fn = "saveChatId"
    /\ ops[3].stamp = 1 /\ ops[1].stamp = 2 /\ ops[2].stamp = 3
    /\ Len(idb.log) = 2 /\ idb.log[1].id # idb.log[2].id
    /\ idb.session = <<ops[3].sid>>

\* a saveChatMessage that completed while a saveChatId called before it was
\* still in its transaction
C32_WitnessOvertaken ==
    /\ Len(ops) >= 2
    /\ ops[1].fn = "saveChatId" /\ ops[1].pc = "tx"
    /\ ops[2].fn = "saveChatMessage" /\ ops[2].stamp = 1
    /\ Len(idb.log) = 1 /\ idb.session = <<>>

(***************************************************************************)
(* Claims about the requests of the component                              *)
(***************************************************************************)
\* C33: every onSend with a non-blank input starts exactly one
\* generateResponse request for that input: once onSend has returned, the
\* request of the resource is the one of the latest submission, with its
\* text, and it calls generateResponse once; also when the same text is
\* submitted twice in a row.
C33_OneRequestPerSend ==
    /\ (sends > 0 /\ onSend.pc # "save") =>
          /\ req.pc # "idle" /\ req.no = sends
          /\ req.query = userRequest
    /\ req.pc # "idle" =>
          req.calls = IF req.pc \in {"getChatId", "generate"} THEN 0 ELSE 1

\* what the code does keep: a request belongs to a submission made, carries
\* the text of userRequest and calls generateResponse once, never twice
C33_AtMostOneRequestPerSend ==
    req.pc # "idle" =>
        /\ req.no \in 1..sends
        /\ req.query = userRequest
        /\ req.calls = IF req.pc \in {"getChatId", "generate"} THEN 0 ELSE 1

(***************************************************************************)
(* SpecLive: Spec in which whatever the component waits for arrives: store *)
(* operations answer, generateResponse settles, and the event stream       *)
(* delivers its events and then closes or raises.  Only the user's         *)
(* submissions and the page load are left to chance.                       *)
(***************************************************************************)
Settles ==
    \/ OnSendSaved
    \/ GetChatId
    \/ \E sid \in SessionIds : GenerateOk(sid)
    \/ SaveChatIdDone
    \/ \E e \in ChatErrors : GenerateFails(e)
    \/ CatchSaved
    \/ StatusSaved
    \/ StreamCloses
    \/ StreamRaises
    \/ FinalSaved

SpecLive == Init /\ [][Next]_vars /\ WF_vars(Settles)

\* C34: after every onSend with a non-blank input, when the transport call
\* settles and the stream closes or raises, isAwaiting becomes false again.
C34_AwaitingEventuallyCleared == isAwaiting ~> ~isAwaiting

\* what the code does keep: when the submission has started its request,
\* isAwaiting becomes false again
C34_StartedRequestUnlocks == (isAwaiting /\ RequestOfLastSend) ~> ~isAwaiting

\* a consumeStream is running for a submission before that of the request
StreamOfEarlierRequest == cons.pc \notin {"idle", "done"} /\ req.pc # "idle" /\ cons.no < req.no

\* C35: with onSend called only while isAwaiting is false, at most one
\* request is active: no generateResponse is issued, and no consumeStream
\* started, for a later submission while the stream of an earlier one is
\* still being consumed.
C35_OneActiveRequest ==
    StreamOfEarlierRequest => req.pc = "getChatId"

(***************************************************************************)
(* Claims about the live output                                            *)
(***************************************************************************)
\* this step delivers a stream event to pipeStream
Delivers == cons.pc = "read" /\ Len(cons'.delivered) = Len(cons.delivered) + 1
DeliveredEvent == cons'.delivered[Len(cons'.delivered)]

\* C36: while the stream is being consumed, an output delta without a
\* newline leaves the live output equal to the previous live output followed
\* by the raw delta; an output delta with a newline sets it to the render of
\* all the text received, that delta included; a progress event, and the
\* save of a status message, leave it as it was.
C36_LiveOutput ==
    [][/\ (Delivers /\ DeliveredEvent.type = "output") =>
             output' = IF Contains(DeliveredEvent.delta, "\n")
                       THEN Render(ConcatDeltas(cons'.delivered))
                       ELSE output \o DeliveredEvent.delta
       /\ (Delivers /\ DeliveredEvent.type # "output") => output' = output
       /\ (cons.pc = "saveStatus" /\ cons'.pc = "read") => output' = output]_vars

\* a delta with a newline, then a delta without: the render of the first
\* followed by the raw second
C36_Witness ==
    /\ cons.pc = "read" /\ Len(cons.delivered) = 2
    /\ cons.delivered[1] = OutputEvent("in_progress", <<"a", "\n">>)
    /\ cons.delivered[2] = OutputEvent("in_progress", <<"b">>)
    /\ output = <<"<p>", "a", "<br>", "</p>", "b">>

\* a delta without a newline, a progress event, then a delta with a newline:
\* the render of the whole text
C36_WitnessRerender ==
    /\ cons.pc = "read" /\ Len(cons.delivered) = 3
    /\ cons.delivered[1] = OutputEvent("in_progress", <<"a">>)
    /\ cons.delivered[2].type # "output"
    /\ cons.delivered[3] = OutputEvent("in_progress", <<"\n", "b">>)
    /\ output = <<"<p>", "a", "<br>", "b", "</p>">>

(***************************************************************************)
(* Claims about the failures of generateResponse                           *)
(***************************************************************************)
\* C37: every failure of generateResponse is one ChatError, chosen in this
\* order: when fetch resolved and the status or the missing body made the
\* call fail, the rate-limit error for 429 and the could-not-be-reached
\* error otherwise, whether or not the controller has fired; when fetch
\* rejected, the timed-out error if the controller has fired and the
\* request-failed error if not.  When the call has returned or failed its
\* timer is no longer armed.
C37_OneErrorKind ==
    /\ gen.pc = "failed" =>
          gen.error = IF net.state = "responded"
                      THEN IF net.response.status = 429 THEN RateLimitError(net.response)
                           ELSE UnreachableError(net.response)
                      ELSE IF gen.aborted THEN TimedOutError
                      ELSE RequestFailedError
    /\ (gen.pc = "failed" /\ net.state = "responded") =>
          (~ResponseOk(net.response) \/ ~net.response.body)
    /\ gen.pc \in {"returned", "failed"} => gen.timer # "armed"

\* the timer fired while a fetch without the signal was pending and the
\* server then answered 429: the rate-limit error, not the timed-out error
C37_Witness ==
    /\ gen.pc = "failed" /\ gen.aborted /\ gen.timer = "fired"
    /\ net.state = "responded" /\ net.response.status = 429
    /\ gen.error = RateLimitError(net.response)

\* the timer aborted the fetch: the timed-out error
C37_WitnessTimedOut ==
    gen.pc = "failed" /\ net.state = "aborted" /\ gen.error = TimedOutError

\* the network failed before the timer's delay elapsed: the request-failed
\* error, and the timer was cleared
C37_WitnessFailed ==
    /\ gen.pc = "failed" /\ net.state = "rejected" /\ ~gen.aborted
    /\ gen.error = RequestFailedError /\ gen.timer = "cleared"

(***************************************************************************)
(* Claims about the component at rest                                      *)
(***************************************************************************)
\* consumeStream is between its start and the end of its finally block
Consuming == cons.pc \notin {"idle", "done"}

\* C38: whenever isAwaiting is false the consumer is idle: no stream is
\* being consumed, the progress label is empty and the live output is the
\* empty string.
C38_IdleWhenNotAwaiting ==
    ~isAwaiting => (~Consuming /\ streamProgress = <<>> /\ output = <<>>)

(***************************************************************************)
(* Claims about the messages of a request                                  *)
(***************************************************************************)
\* the final assistant messages added to the live list since the request of
\* the latest submission started
FinalAssistantMessages ==
    SelectSeq(SubSeq(messages, req.base + 1, Len(messages)),
              LAMBDA m : m.turn = "assistant" /\ m.final)

\* sendRequest and, when it was started, consumeStream have both returned
RequestFinished ==
    \/ req.pc = "failed" /\ ~StreamStarted
    \/ req.pc \in {"done", "failed"} /\ StreamStarted /\ cons.pc = "done"

\* C39: each submitted request adds exactly one final assistant message to
\* the live list, the rendered answer or one error message: never two
\* while it runs, and one when it has finished.
C39_OneFinalMessage ==
    RequestOfLastSend =>
        /\ Len(FinalAssistantMessages) <= 1
        /\ RequestFinished => Len(FinalAssistantMessages) = 1

====
